---------------------------- MODULE Spec2Model ----------------------------
(***************************************************************************)
(* A model of the record-linkage and merge engine of foobos:               *)
(*   processors/normalizer.py   (normalize_concerts and its helpers)       *)
(*   processors/deduplicator.py (deduplicate_concerts and its helpers)     *)
(*   models/concert.py          (the Concert record)                       *)
(*                                                                         *)
(* Python str values that the code inspects character by character are     *)
(* sequences of one-character strings; str values that the code only       *)
(* compares, sorts and joins (source, flags, genre tags) are TLA+ strings. *)
(* An Optional[int] is a sequence of length 0 (None) or 1.                 *)
(***************************************************************************)
EXTENDS Integers, Sequences, FiniteSets, TLC

(***************************************************************************)
(* str primitives                                                          *)
(***************************************************************************)
LowerLetters == <<"a","b","c","d","e","f","g","h","i","j","k","l","m",
                  "n","o","p","q","r","s","t","u","v","w","x","y","z">>

UpperLetters == <<"A","B","C","D","E","F","G","H","I","J","K","L","M",
                  "N","O","P","Q","R","S","T","U","V","W","X","Y","Z">>

DigitChars == <<"0","1","2","3","4","5","6","7","8","9">>

IsUpperChar(c) == \E i \in 1..26 : UpperLetters[i] = c

IsLowerChar(c) == \E i \in 1..26 : LowerLetters[i] = c

IsDigit(c) == \E i \in 1..10 : DigitChars[i] = c

\* \s of the re module, restricted to the characters of the model
IsSpace(c) == c = " "

\* \w of the re module
IsWordChar(c) == IsUpperChar(c) \/ IsLowerChar(c) \/ IsDigit(c) \/ c = "_"

LowerChar(c) ==
    IF IsUpperChar(c)
    THEN LowerLetters[CHOOSE i \in 1..26 : UpperLetters[i] = c]
    ELSE c

UpperChar(c) ==
    IF IsLowerChar(c)
    THEN UpperLetters[CHOOSE i \in 1..26 : LowerLetters[i] = c]
    ELSE c

DigitVal(c) == (CHOOSE i \in 1..10 : DigitChars[i] = c) - 1

\* str.lower()
Lower(s) == [i \in 1..Len(s) |-> LowerChar(s[i])]

\* s[p:] with a 1-based p
From(s, p) == SubSeq(s, p, Len(s))

\* str.lstrip(), str.rstrip(), str.strip()
LStrip(s) ==
    LET ns == {i \in 1..Len(s) : ~IsSpace(s[i])}
    IN  IF ns = {} THEN <<>>
        ELSE From(s, CHOOSE i \in ns : \A k \in ns : i <= k)

RStrip(s) ==
    LET ns == {i \in 1..Len(s) : ~IsSpace(s[i])}
    IN  IF ns = {} THEN <<>>
        ELSE SubSeq(s, 1, CHOOSE i \in ns : \A k \in ns : i >= k)

Strip(s) == RStrip(LStrip(s))

\* s.startswith(pre), s.endswith(suf), sub in s
StartsWith(s, pre) == Len(s) >= Len(pre) /\ SubSeq(s, 1, Len(pre)) = pre

EndsWith(s, suf) ==
    Len(s) >= Len(suf) /\ SubSeq(s, Len(s) - Len(suf) + 1, Len(s)) = suf

Contains(s, sub) ==
    \E p \in 1..(Len(s) - Len(sub) + 1) : SubSeq(s, p, p + Len(sub) - 1) = sub

\* re.sub(r'[^\w\s]', '', s)
RECURSIVE RemovePunct(_)
RemovePunct(s) ==
    IF s = <<>> THEN <<>>
    ELSE (IF IsWordChar(Head(s)) \/ IsSpace(Head(s)) THEN <<Head(s)>> ELSE <<>>)
         \o RemovePunct(Tail(s))

\* re.sub(r'\s+', ' ', s)
RECURSIVE CollapseSpaces(_)
CollapseSpaces(s) ==
    IF s = <<>> THEN <<>>
    ELSE IF IsSpace(Head(s))
         THEN <<" ">> \o CollapseSpaces(LStrip(s))
         ELSE <<Head(s)>> \o CollapseSpaces(Tail(s))

\* the longest prefix of s made of digits, and its value (int())
DigitPrefixLen(s) ==
    LET nd == {i \in 1..Len(s) : ~IsDigit(s[i])}
    IN  IF nd = {} THEN Len(s)
        ELSE (CHOOSE i \in nd : \A k \in nd : i <= k) - 1

RECURSIVE DigitsToInt(_)
DigitsToInt(s) ==
    IF s = <<>> THEN 0
    ELSE 10 * DigitsToInt(SubSeq(s, 1, Len(s) - 1)) + DigitVal(s[Len(s)])

(***************************************************************************)
(* rapidfuzz.fuzz.ratio: 100 * 2 * LCS(a, b) / (len(a) + len(b)), and 100   *)
(* for two empty strings.  The comparisons with a threshold are made       *)
(* exactly, by cross-multiplication.                                       *)
(***************************************************************************)
SetMax(S) == CHOOSE x \in S : \A y \in S : x >= y

\* one row of the LCS table from the previous one; row[j + 1] is the LCS of
\* the prefix of a read so far and b[1..j]
LcsRow(ch, b, prev) ==
    SubSeq([j1 \in 1..(Len(b) + 1) |->
              SetMax({prev[j1]}
                     \cup {prev[k] + 1 : k \in {k \in 1..(j1 - 1) : b[k] = ch}})],
           1, Len(b) + 1)

\* the rows of the LCS table for a[i], a[i + 1], ...; prev is the row before.
\* Each row is computed once, as the element of a set, before the next one.
RECURSIVE LcsRows(_, _, _, _)
LcsRows(a, b, i, prev) ==
    IF i > Len(a) THEN prev
    ELSE CHOOSE last \in {LcsRows(a, b, i + 1, row) : row \in {LcsRow(a[i], b, prev)}} :
            TRUE

LcsLen(a, b) ==
    LcsRows(a, b, 1, SubSeq([j \in 1..(Len(b) + 1) |-> 0], 1, Len(b) + 1))[Len(b) + 1]
\* str < str and sorted() of a list of str: by code point, character by
\* character.  CodePoints lists the characters of the model in that order.
CodePoints ==
    <<" ","$","&","'","(",")","*","+",",","-",".","/">> \o DigitChars
    \o <<":","@">> \o UpperLetters \o <<"_">> \o LowerLetters
    \o <<"U+2013","U+2018","U+2019">>

Ord(c) == CHOOSE i \in 1..Len(CodePoints) : CodePoints[i] = c

StrLess(s, t) ==
    \E p \in 1..(Len(t)) :
        /\ p <= Len(s) + 1
        /\ SubSeq(s, 1, p - 1) = SubSeq(t, 1, p - 1)
        /\ (p = Len(s) + 1 \/ Ord(s[p]) < Ord(t[p]))

\* sorted(list(set(xs))): the distinct elements in increasing order
RECURSIVE SortedSet(_)
SortedSet(S) ==
    IF S = {} THEN <<>>
    ELSE LET m == CHOOSE e \in S : \A o \in S : o = e \/ StrLess(e, o)
         IN  <<m>> \o SortedSet(S \ {m})

Range(xs) == {xs[i] : i \in 1..Len(xs)}

\* dict.get(key, default) for a dict given as a set of <<key, value>> pairs
DictGet(dict, key, default) ==
    IF \E e \in dict : e[1] = key
    THEN (CHOOSE e \in dict : e[1] = key)[2]
    ELSE default

(***************************************************************************)
(* processors/normalizer.py                                                *)
(***************************************************************************)
\* str.isupper(): at least one cased character and no lowercase one
IsUpperStr(s) ==
    /\ \E i \in 1..Len(s) : IsUpperChar(s[i])
    /\ \A i \in 1..Len(s) : ~IsLowerChar(s[i])

\* str.title(): a letter is upper-cased after a non-letter, lower-cased after
\* a letter
Title(s) ==
    [i \in 1..Len(s) |->
        IF i = 1 \/ ~(IsUpperChar(s[i - 1]) \/ IsLowerChar(s[i - 1]))
        THEN UpperChar(s[i]) ELSE LowerChar(s[i])]

\* re.sub(r'^(?:the\s+)?(.+?)(?:\s+band)?$', r'\1', name, flags=re.IGNORECASE)
\* on a stripped name: the optional groups match whenever they can
StripThe(name) ==
    IF StartsWith(Lower(name), <<"t","h","e">>) /\ Len(name) > 3 /\ IsSpace(name[4])
    THEN LStrip(From(name, 4))
    ELSE name

StripBand(name) ==
    LET pre == SubSeq(name, 1, Len(name) - 4)
    IN  IF /\ EndsWith(Lower(name), <<"b","a","n","d">>)
           /\ Len(pre) > 0
           /\ IsSpace(pre[Len(pre)])
           /\ RStrip(pre) # <<>>
        THEN RStrip(pre)
        ELSE name

StripTheBand(name) == StripBand(StripThe(name))

corrections == {
      <<<<"d","r","o","p","k","i","c","k"," ","m","u","r","p","h","y","'","s">>,
        <<"D","r","o","p","k","i","c","k"," ","M","u","r","p","h","y","s">>>>,
      <<<<"d","r","o","p","k","i","c","k"," ","m","u","r","p","h","y","s">>,
        <<"D","r","o","p","k","i","c","k"," ","M","u","r","p","h","y","s">>>>,
      <<<<"m","i","g","h","t","y"," ","m","i","g","h","t","y"," ","b","o","s","s","t","o","n","e","s">>,
        <<"T","h","e"," ","M","i","g","h","t","y"," ","M","i","g","h","t","y"," ","B","o","s","s","t","o","n","e","s">>>>,
      <<<<"b","o","s","s","t","o","n","e","s">>,
        <<"T","h","e"," ","M","i","g","h","t","y"," ","M","i","g","h","t","y"," ","B","o","s","s","t","o","n","e","s">>>>,
      <<<<"d","i","n","o","s","a","u","r"," ","j","r">>,
        <<"D","i","n","o","s","a","u","r"," ","J","r",".">>>>,
      <<<<"d","i","n","o","s","a","u","r"," ","j","r",".">>,
        <<"D","i","n","o","s","a","u","r"," ","J","r",".">>>>
    }

\* lines 81-82: "the " at the start is written "The "
CapitalizeThe(name) ==
    IF StartsWith(Lower(name), <<"t","h","e"," ">>) THEN <<"T","h","e"," ">> \o From(name, 5) ELSE name

\* lines 85-86: a name in capitals of more than 4 characters is title-cased
TitleAllCaps(name) ==
    IF IsUpperStr(name) /\ Len(name) > 4 THEN Title(name) ELSE name

\* lines 89-100: the spelling corrections
Correct(name) == DictGet(corrections, Lower(name), name)

_normalize_band_name(name) ==
    IF name = <<>> THEN <<>>
    ELSE Strip(Correct(TitleAllCaps(CapitalizeThe(StripTheBand(Strip(name))))))

id_map == {
      <<<<"m","i","d","d","l","e","_","e","a","s","t">>,
        <<"m","i","d","d","l","e","e","a","s","t">>>>,
      <<<<"m","i","d","d","l","e","-","e","a","s","t">>,
        <<"m","i","d","d","l","e","e","a","s","t">>>>,
      <<<<"t","h","e","m","i","d","d","l","e","e","a","s","t">>,
        <<"m","i","d","d","l","e","e","a","s","t">>>>,
      <<<<"m","i","d","d","l","e","_","e","a","s","t","_","-","_","u","p","s","t","a","i","r","s">>,
        <<"m","i","d","d","l","e","e","a","s","t","_","u","p">>>>,
      <<<<"m","i","d","d","l","e","_","e","a","s","t","_","-","_","d","o","w","n","s","t","a","i","r","s">>,
        <<"m","i","d","d","l","e","e","a","s","t","_","d","o","w","n">>>>,
      <<<<"m","i","d","d","l","e","_","e","a","s","t","-","_","d","o","w","n","s","t","a","i","r","s">>,
        <<"m","i","d","d","l","e","e","a","s","t","_","d","o","w","n">>>>,
      <<<<"m","i","d","d","l","e","_","e","a","s","t","_","-","_","c","o","r","n","e","r","/","b","a","k","e","r","y">>,
        <<"m","i","d","d","l","e","e","a","s","t","_","c","o","r","n","e","r">>>>,
      <<<<"m","i","d","d","l","e","_","e","a","s","t","_","-","_","z","u","z","u">>,
        <<"m","i","d","d","l","e","e","a","s","t","_","z","u","z","u">>>>,
      <<<<"p","a","r","a","d","i","s","e","_","r","o","c","k","_","c","l","u","b">>,
        <<"p","a","r","a","d","i","s","e">>>>,
      <<<<"p","a","r","a","d","i","s","e","_","r","o","c","k">>,
        <<"p","a","r","a","d","i","s","e">>>>,
      <<<<"p","a","r","a","d","i","s","e","r","o","c","k">>,
        <<"p","a","r","a","d","i","s","e">>>>,
      <<<<"p","a","r","a","d","i","s","e","_","r","o","c","k","_","c","l","u","b","_","p","r","e","s","e","n","t","e","d","_","b">>,
        <<"p","a","r","a","d","i","s","e">>>>,
      <<<<"s","i","n","c","l","a","i","r","_","c","a","m","b","r","i","d","g","e">>,
        <<"s","i","n","c","l","a","i","r">>>>,
      <<<<"t","h","e","s","i","n","c","l","a","i","r">>,
        <<"s","i","n","c","l","a","i","r">>>>,
      <<<<"t","h","e","_","s","i","n","c","l","a","i","r","_","m","u","s","i","c","_","h","a","l","l">>,
        <<"s","i","n","c","l","a","i","r">>>>,
      <<<<"t","h","e","_","s","i","n","c","l","a","i","r","_","-","_","c","a","m","b","r","i","d","g","e">>,
        <<"s","i","n","c","l","a","i","r">>>>,
      <<<<"r","o","y","a","l","e","_","b","o","s","t","o","n">>,
        <<"r","o","y","a","l","e">>>>,
      <<<<"r","o","a","d","r","u","n","n","e","r","-","b","o","s","t","o","n">>,
        <<"r","o","a","d","r","u","n","n","e","r">>>>,
      <<<<"l","i","z","a","r","d","_","l","o","u","n","g","e">>,
        <<"l","i","z","a","r","d","l","o","u","n","g","e">>>>,
      <<<<"h","o","u","s","e","_","o","f","_","b","l","u","e","s">>,
        <<"h","o","b","_","b","o","s","t","o","n">>>>,
      <<<<"h","o","u","s","e","o","f","b","l","u","e","s">>,
        <<"h","o","b","_","b","o","s","t","o","n">>>>,
      <<<<"c","i","t","i","z","e","n","s","_","h","o","u","s","e","_","o","f","_","b","l","u","e","s","_","b","o","s","t","o","n">>,
        <<"h","o","b","_","b","o","s","t","o","n">>>>,
      <<<<"h","o","b">>,
        <<"h","o","b","_","b","o","s","t","o","n">>>>,
      <<<<"o","b","r","i","e","n","s","_","p","u","b">>,
        <<"o","b","r","i","e","n","s">>>>,
      <<<<"o","b","r","i","e","n">>,
        <<"o","b","r","i","e","n","s">>>>,
      <<<<"o","'","b","r","i","e","n","'","s","_","p","u","b">>,
        <<"o","b","r","i","e","n","s">>>>,
      <<<<"c","r","y","s","t","a","l","_","b","a","l","l","r","o","o","m","_","a","t","_","s","o","m","e","r","v","i","l","l","e">>,
        <<"c","r","y","s","t","a","l">>>>,
      <<<<"j","u","n","g","l","e","_","t","i","x">>,
        <<"j","u","n","g","l","e">>>>,
      <<<<"b","r","i","g","h","t","o","n","_","m","u","s","i","c","_","h","a","l","l">>,
        <<"b","r","i","g","h","t","o","n">>>>,
      <<<<"b","r","i","g","h","t","o","n","m","u","s","i","c">>,
        <<"b","r","i","g","h","t","o","n">>>>,
      <<<<"b","r","i","g","h","t","o","n","_","m","u","s","i","c","_","h","a","l","l","_","p","r","e","s","e","n","t","e","d","_">>,
        <<"b","r","i","g","h","t","o","n">>>>,
      <<<<"o","r","p","h","e","u","m","_","t","h","e","a","t","r","e","_","p","r","e","s","e","n","t","e","d","_","b","y","_","c">>,
        <<"o","r","p","h","e","u","m">>>>,
      <<<<"g","r","e","a","t","_","s","c","o","t","t">>,
        <<"g","r","e","a","t","s","c","o","t","t">>>>,
      <<<<"g","r","e","a","t","s","c","o","t","t","b","o","s","t","o","n">>,
        <<"g","r","e","a","t","s","c","o","t","t">>>>,
      <<<<"m","i","d","w","a","y","_","c","a","f","e">>,
        <<"m","i","d","w","a","y">>>>,
      <<<<"m","i","d","w","a","y","c","a","f","e">>,
        <<"m","i","d","w","a","y">>>>,
      <<<<"d","e","e","p","_","c","u","t","s">>,
        <<"d","e","e","p","c","u","t","s">>>>,
      <<<<"d","e","e","p","-","c","u","t","s">>,
        <<"d","e","e","p","c","u","t","s">>>>,
      <<<<"g","r","o","t","o","n","_","h","i","l","l","_","m","u","s","i","c","_","c","e","n","t","e","r">>,
        <<"g","r","o","t","o","n","h","i","l","l">>>>,
      <<<<"g","r","o","t","o","n","-","h","i","l","l">>,
        <<"g","r","o","t","o","n","h","i","l","l">>>>,
      <<<<"g","r","o","t","o","n","_","h","i","l","l">>,
        <<"g","r","o","t","o","n","h","i","l","l">>>>,
      <<<<"s","y","m","p","h","o","n","y","_","h","a","l","l">>,
        <<"s","y","m","p","h","o","n","y","h","a","l","l">>>>,
      <<<<"s","y","m","p","h","o","n","y","-","h","a","l","l">>,
        <<"s","y","m","p","h","o","n","y","h","a","l","l">>>>,
      <<<<"b","s","o">>,
        <<"s","y","m","p","h","o","n","y","h","a","l","l">>>>,
      <<<<"b","o","s","t","o","n","_","s","y","m","p","h","o","n","y","_","o","r","c","h","e","s","t","r","a">>,
        <<"s","y","m","p","h","o","n","y","h","a","l","l">>>>,
      <<<<"b","o","s","t","o","n","_","s","y","m","p","h","o","n","y","_","h","a","l","l">>,
        <<"s","y","m","p","h","o","n","y","h","a","l","l">>>>,
      <<<<"b","e","r","k","l","e","e">>,
        <<"b","e","r","k","l","e","e","_","b","p","c">>>>,
      <<<<"b","e","r","k","l","e","e","_","p","e","r","f","o","r","m","i","n","g","_","a","r","t","s","_","c","e","n","t","e","r">>,
        <<"b","e","r","k","l","e","e","_","b","p","c">>>>,
      <<<<"b","i","g","n","i","g","h","t","l","i","v","e">>,
        <<"b","i","g","_","n","i","g","h","t","_","l","i","v","e">>>>,
      <<<<"b","i","j","o","u","_","n","i","g","h","t","c","l","u","b">>,
        <<"b","i","j","o","u">>>>,
      <<<<"b","l","u","e","_","o","c","e","a","n">>,
        <<"b","l","u","e","_","o","c","e","a","n","_","m","u","s","i","c","_","h","a","l","l">>>>,
      <<<<"c","a","f","e","_","9","3","9">>,
        <<"c","a","f","e","9","3","9">>>>,
      <<<<"r","e","d","_","r","o","o","m","_","a","t","_","c","a","f","e","_","9","3","9">>,
        <<"c","a","f","e","9","3","9">>>>,
      <<<<"c","e","n","t","r","o","_","n","i","g","h","t","_","c","l","u","b">>,
        <<"c","e","n","t","r","o","_","n","i","g","h","t","c","l","u","b">>>>,
      <<<<"c","h","e","v","a","l","i","e","r">>,
        <<"c","h","e","v","a","l","i","e","r","_","t","h","e","a","t","r","e">>>>,
      <<<<"c","i","t","y","w","i","n","e","r","y">>,
        <<"c","i","t","y","_","w","i","n","e","r","y">>>>,
      <<<<"f","e","n","w","a","y">>,
        <<"f","e","n","w","a","y","_","p","a","r","k">>>>,
      <<<<"l","y","n","n","_","m","e","m","o","r","i","a","l","_","a","u","d","i","t","o","r","i","u","m">>,
        <<"l","y","n","n","_","a","u","d","i","t","o","r","i","u","m">>>>,
      <<<<"m","e","m","o","i","r","e","_","b","o","s","t","o","n">>,
        <<"m","e","m","o","i","r","e">>>>,
      <<<<"m","g","m","_","m","u","s","i","c","_","h","a","l","l","_","a","t","_","f","e","n","w","a","y">>,
        <<"m","g","m","_","m","u","s","i","c","_","h","a","l","l">>>>,
      <<<<"o","f","f","_","t","h","e","_","r","a","i","l","s">>,
        <<"o","f","f","_","t","h","e","_","r","a","i","l","s","_","m","u","s","i","c","_","v","e","n","u","e">>>>,
      <<<<"p","a","l","l","a","d","i","u","m","-","m","a">>,
        <<"p","a","l","l","a","d","i","u","m">>>>,
      <<<<"p","a","v","i","l","i","o","n">>,
        <<"l","e","a","d","e","r","_","b","a","n","k","_","p","a","v","i","l","i","o","n">>>>,
      <<<<"p","r","o","v","i","d","e","n","c","e","_","p","e","r","f","o","r","m","i","n","g","_","a","r","t","s">>,
        <<"p","r","o","v","i","d","e","n","c","e","_","p","e","r","f","o","r","m","i","n","g","_","a","r","t","s","_","c","e","n">>>>,
      <<<<"t","h","e","_","r","o","c","k","w","e","l","l">>,
        <<"r","o","c","k","w","e","l","l">>>>,
      <<<<"s","c","u","l","l","e","r","s">>,
        <<"s","c","u","l","l","e","r","s","_","j","a","z","z","_","c","l","u","b">>>>,
      <<<<"s","o","n","i","a","_","l","i","v","e","_","m","u","s","i","c","_","v","e","n","u","e">>,
        <<"s","o","n","i","a">>>>,
      <<<<"t","d","g","a","r","d","e","n">>,
        <<"t","d","_","g","a","r","d","e","n">>>>,
      <<<<"t","h","e","_","g","r","a","n","d","_","(","b","o","s","t","o","n",")">>,
        <<"t","h","e","_","g","r","a","n","d">>>>,
      <<<<"t","h","e","_","h","a","n","o","v","e","r","_","t","h","e","a","t","r","e">>,
        <<"h","a","n","o","v","e","r","_","t","h","e","a","t","r","e">>>>,
      <<<<"s","t","r","a","n","d","_","t","h","e","a","t","r","e","-","r","i">>,
        <<"t","h","e","_","s","t","r","a","n","d","_","t","h","e","a","t","r","e","_","-","_","p","r","o","v","i","d","e","n","c">>>>,
      <<<<"t","h","e","_","v","e","t","s">>,
        <<"v","e","t","e","r","a","n","s","_","m","e","m","o","r","i","a","l","_","a","u","d","i","t","o","r","i","u","m">>>>,
      <<<<"t","h","e","_","v","e","t","s","_","-","_","v","e","t","e","r","a","n","s","_","m","e","m","o","r","i","a","l","_","a">>,
        <<"v","e","t","e","r","a","n","s","_","m","e","m","o","r","i","a","l","_","a","u","d","i","t","o","r","i","u","m">>>>,
      <<<<"w","a","l","l","y","s","_","p","u","b">>,
        <<"w","a","l","l","y","s">>>>,
      <<<<"x","f","i","n","i","t","y","_","c","e","n","t","e","r">>,
        <<"x","f","i","n","i","t","y","_","c","e","n","t","e","r","_","-","_","m","a">>>>
    }

_normalize_venue_id(venue_id) ==
    IF venue_id = <<>> THEN <<"u","n","k","n","o","w","n">>
    ELSE LET v == Strip(Lower(venue_id))
         IN  DictGet(id_map, v, v)

\* line 111: the typographic apostrophes are replaced by '
StraightQuotes(venue_id) ==
    [i \in 1..Len(venue_id) |->
        IF venue_id[i] \in {"U+2019", "U+2018", "U+0060"} THEN "'" ELSE venue_id[i]]

\* lines 113-137, on the venue_id of line 111 and the two lower-cased values
VenueIdByName(venue_id, venue_id_lower, venue_name_lower) ==
    IF /\ Contains(venue_id_lower, <<"b","r","i","e","n">>)
       /\ ~Contains(venue_id_lower, <<"s","a","l","l","y">>)
    THEN <<"o","b","r","i","e","n","s">>
    ELSE IF \/ Contains(venue_id_lower, <<"s","a","l","l","y","o","b","r","i","e","n">>)
            \/ Contains(venue_id_lower, <<"s","a","l","l","y","_","o","b","r","i","e","n">>)
    THEN <<"s","a","l","l","y","o","b","r","i","e","n","s">>
    ELSE IF \/ Contains(venue_id_lower, <<"m","i","d","d","l","e","e","a","s","t">>)
            \/ Contains(venue_id_lower, <<"m","i","d","d","l","e","_","e","a","s","t">>)
            \/ Contains(venue_id_lower, <<"m","i","d","d","l","e","-","e","a","s","t">>)
    THEN IF Contains(venue_name_lower, <<"u","p","s","t","a","i","r","s">>)
         THEN <<"m","i","d","d","l","e","e","a","s","t","_","u","p">>
         ELSE IF Contains(venue_name_lower, <<"d","o","w","n","s","t","a","i","r","s">>)
         THEN <<"m","i","d","d","l","e","e","a","s","t","_","d","o","w","n">>
         ELSE IF \/ Contains(venue_name_lower, <<"c","o","r","n","e","r">>)
                 \/ Contains(venue_name_lower, <<"b","a","k","e","r","y">>)
         THEN <<"m","i","d","d","l","e","e","a","s","t","_","c","o","r","n","e","r">>
         ELSE IF Contains(venue_name_lower, <<"z","u","z","u">>)
         THEN <<"m","i","d","d","l","e","e","a","s","t","_","z","u","z","u">>
         ELSE <<"m","i","d","d","l","e","e","a","s","t">>
    ELSE _normalize_venue_id(venue_id)

VenueIdQuoted(venue_id, venue_name) ==
    VenueIdByName(venue_id, Strip(Lower(venue_id)), Strip(Lower(venue_name)))

_normalize_venue_id_with_name(venue_id, venue_name) ==
    IF venue_id = <<>> THEN <<"u","n","k","n","o","w","n">>
    ELSE VenueIdQuoted(StraightQuotes(venue_id), venue_name)

name_map == {
      <<<<"m","i","d","d","l","e"," ","e","a","s","t">>,
        <<"M","i","d","d","l","e"," ","E","a","s","t">>>>,
      <<<<"m","i","d","d","l","e"," ","e","a","s","t"," ","d","o","w","n","s","t","a","i","r","s">>,
        <<"M","i","d","d","l","e"," ","E","a","s","t"," ","D","o","w","n","s","t","a","i","r","s">>>>,
      <<<<"m","i","d","d","l","e"," ","e","a","s","t"," ","u","p","s","t","a","i","r","s">>,
        <<"M","i","d","d","l","e"," ","E","a","s","t"," ","U","p","s","t","a","i","r","s">>>>,
      <<<<"t","h","e"," ","m","i","d","d","l","e"," ","e","a","s","t"," ","u","p","s","t","a","i","r","s">>,
        <<"M","i","d","d","l","e"," ","E","a","s","t"," ","U","p","s","t","a","i","r","s">>>>,
      <<<<"t","h","e"," ","m","i","d","d","l","e"," ","e","a","s","t"," ","d","o","w","n","s","t","a","i","r","s">>,
        <<"M","i","d","d","l","e"," ","E","a","s","t"," ","D","o","w","n","s","t","a","i","r","s">>>>,
      <<<<"t","h","e"," ","m","i","d","d","l","e"," ","e","a","s","t"," ","c","o","r","n","e","r"," ","b","a","r">>,
        <<"M","i","d","d","l","e"," ","E","a","s","t"," ","C","o","r","n","e","r">>>>,
      <<<<"m","i","d","d","l","e"," ","e","a","s","t"," ","-"," ","d","o","w","n","s","t","a","i","r","s">>,
        <<"M","i","d","d","l","e"," ","E","a","s","t"," ","D","o","w","n","s","t","a","i","r","s">>>>,
      <<<<"m","i","d","d","l","e"," ","e","a","s","t","-"," ","d","o","w","n","s","t","a","i","r","s">>,
        <<"M","i","d","d","l","e"," ","E","a","s","t"," ","D","o","w","n","s","t","a","i","r","s">>>>,
      <<<<"m","i","d","d","l","e"," ","e","a","s","t"," ","-"," ","u","p","s","t","a","i","r","s">>,
        <<"M","i","d","d","l","e"," ","E","a","s","t"," ","U","p","s","t","a","i","r","s">>>>,
      <<<<"m","i","d","d","l","e"," ","e","a","s","t"," ","-"," ","c","o","r","n","e","r","/","b","a","k","e","r","y">>,
        <<"M","i","d","d","l","e"," ","E","a","s","t"," ","C","o","r","n","e","r">>>>,
      <<<<"m","i","d","d","l","e"," ","e","a","s","t"," ","-"," ","z","u","z","u">>,
        <<"M","i","d","d","l","e"," ","E","a","s","t"," ","Z","u","Z","u">>>>,
      <<<<"p","a","r","a","d","i","s","e"," ","r","o","c","k"," ","c","l","u","b">>,
        <<"P","a","r","a","d","i","s","e"," ","R","o","c","k"," ","C","l","u","b">>>>,
      <<<<"p","a","r","a","d","i","s","e">>,
        <<"P","a","r","a","d","i","s","e"," ","R","o","c","k"," ","C","l","u","b">>>>,
      <<<<"p","a","r","a","d","i","s","e"," ","r","o","c","k"," ","c","l","u","b"," ","p","r","e","s","e","n","t","e","d"," ","b","y"," ","c","i","t","i","z","e","n","s">>,
        <<"P","a","r","a","d","i","s","e"," ","R","o","c","k"," ","C","l","u","b">>>>,
      <<<<"t","h","e"," ","s","i","n","c","l","a","i","r">>,
        <<"T","h","e"," ","S","i","n","c","l","a","i","r">>>>,
      <<<<"s","i","n","c","l","a","i","r">>,
        <<"T","h","e"," ","S","i","n","c","l","a","i","r">>>>,
      <<<<"t","h","e"," ","s","i","n","c","l","a","i","r"," ","m","u","s","i","c"," ","h","a","l","l">>,
        <<"T","h","e"," ","S","i","n","c","l","a","i","r">>>>,
      <<<<"r","o","y","a","l","e">>,
        <<"R","o","y","a","l","e">>>>,
      <<<<"r","o","y","a","l","e"," ","b","o","s","t","o","n">>,
        <<"R","o","y","a","l","e">>>>,
      <<<<"r","o","a","d","r","u","n","n","e","r">>,
        <<"R","o","a","d","r","u","n","n","e","r">>>>,
      <<<<"r","o","a","d","r","u","n","n","e","r","-","b","o","s","t","o","n">>,
        <<"R","o","a","d","r","u","n","n","e","r">>>>,
      <<<<"l","i","z","a","r","d"," ","l","o","u","n","g","e">>,
        <<"L","i","z","a","r","d"," ","L","o","u","n","g","e">>>>,
      <<<<"h","o","u","s","e"," ","o","f"," ","b","l","u","e","s">>,
        <<"H","o","u","s","e"," ","o","f"," ","B","l","u","e","s">>>>,
      <<<<"h","o","u","s","e"," ","o","f"," ","b","l","u","e","s"," ","b","o","s","t","o","n">>,
        <<"H","o","u","s","e"," ","o","f"," ","B","l","u","e","s">>>>,
      <<<<"c","i","t","i","z","e","n","s"," ","h","o","u","s","e"," ","o","f"," ","b","l","u","e","s"," ","b","o","s","t","o","n">>,
        <<"H","o","u","s","e"," ","o","f"," ","B","l","u","e","s">>>>,
      <<<<"b","r","i","g","h","t","o","n"," ","m","u","s","i","c"," ","h","a","l","l">>,
        <<"B","r","i","g","h","t","o","n"," ","M","u","s","i","c"," ","H","a","l","l">>>>,
      <<<<"b","r","i","g","h","t","o","n"," ","m","u","s","i","c"," ","h","a","l","l"," ","p","r","e","s","e","n","t","e","d"," ","b","y"," ","c","i","t","i","z","e","n","s">>,
        <<"B","r","i","g","h","t","o","n"," ","M","u","s","i","c"," ","H","a","l","l">>>>,
      <<<<"o","r","p","h","e","u","m">>,
        <<"O","r","p","h","e","u","m"," ","T","h","e","a","t","r","e">>>>,
      <<<<"o","r","p","h","e","u","m"," ","t","h","e","a","t","r","e">>,
        <<"O","r","p","h","e","u","m"," ","T","h","e","a","t","r","e">>>>,
      <<<<"o","r","p","h","e","u","m"," ","t","h","e","a","t","r","e"," ","p","r","e","s","e","n","t","e","d"," ","b","y"," ","c","i","t","i","z","e","n","s">>,
        <<"O","r","p","h","e","u","m"," ","T","h","e","a","t","r","e">>>>,
      <<<<"g","r","e","a","t"," ","s","c","o","t","t">>,
        <<"G","r","e","a","t"," ","S","c","o","t","t">>>>,
      <<<<"c","r","y","s","t","a","l"," ","b","a","l","l","r","o","o","m">>,
        <<"C","r","y","s","t","a","l"," ","B","a","l","l","r","o","o","m">>>>,
      <<<<"c","r","y","s","t","a","l"," ","b","a","l","l","r","o","o","m"," ","a","t"," ","s","o","m","e","r","v","i","l","l","e"," ","t","h","e","a","t","r","e">>,
        <<"C","r","y","s","t","a","l"," ","B","a","l","l","r","o","o","m">>>>,
      <<<<"j","u","n","g","l","e">>,
        <<"J","u","n","g","l","e">>>>,
      <<<<"j","u","n","g","l","e"," "," ","t","i","x">>,
        <<"J","u","n","g","l","e">>>>,
      <<<<"m","i","d","w","a","y"," ","c","a","f","e">>,
        <<"M","i","d","w","a","y"," ","C","a","f","e">>>>,
      <<<<"o","'","b","r","i","e","n","'","s"," ","p","u","b">>,
        <<"O","'","B","r","i","e","n","'","s"," ","P","u","b">>>>,
      <<<<"o","b","r","i","e","n","s">>,
        <<"O","'","B","r","i","e","n","'","s"," ","P","u","b">>>>,
      <<<<"s","a","l","l","y"," ","o","'","b","r","i","e","n","'","s">>,
        <<"S","a","l","l","y"," ","O","'","B","r","i","e","n","'","s">>>>,
      <<<<"s","a","l","l","y","o","b","r","i","e","n","s">>,
        <<"S","a","l","l","y"," ","O","'","B","r","i","e","n","'","s">>>>,
      <<<<"s","a","l","l","y"," ","o","b","r","i","e","n","s">>,
        <<"S","a","l","l","y"," ","O","'","B","r","i","e","n","'","s">>>>,
      <<<<"t","h","e"," ","r","o","c","k","w","e","l","l">>,
        <<"T","h","e"," ","R","o","c","k","w","e","l","l">>>>,
      <<<<"d","e","e","p"," ","c","u","t","s">>,
        <<"D","e","e","p"," ","C","u","t","s">>>>,
      <<<<"g","r","o","t","o","n"," ","h","i","l","l"," ","m","u","s","i","c"," ","c","e","n","t","e","r">>,
        <<"G","r","o","t","o","n"," ","H","i","l","l"," ","M","u","s","i","c"," ","C","e","n","t","e","r">>>>,
      <<<<"g","r","o","t","o","n"," ","h","i","l","l">>,
        <<"G","r","o","t","o","n"," ","H","i","l","l"," ","M","u","s","i","c"," ","C","e","n","t","e","r">>>>,
      <<<<"s","y","m","p","h","o","n","y"," ","h","a","l","l">>,
        <<"S","y","m","p","h","o","n","y"," ","H","a","l","l">>>>,
      <<<<"b","o","s","t","o","n"," ","s","y","m","p","h","o","n","y"," ","o","r","c","h","e","s","t","r","a">>,
        <<"S","y","m","p","h","o","n","y"," ","H","a","l","l">>>>
    }

_normalize_venue_name(name) ==
    IF name = <<>> THEN <<"U","n","k","n","o","w","n"," ","V","e","n","u","e">>
    ELSE DictGet(name_map, Strip(Lower(name)), name)

venue_location_fixes == { <<<<"h","o","b","_","b","o","s","t","o","n">>, <<"B","o","s","t","o","n">>>> }

loc_map == {
      <<<<"b","o","s","t","o","n">>,
        <<"B","o","s","t","o","n">>>>,
      <<<<"b","o","s","t","o","n",","," ","m","a">>,
        <<"B","o","s","t","o","n">>>>,
      <<<<"c","a","m","b","r","i","d","g","e">>,
        <<"C","a","m","b","r","i","d","g","e">>>>,
      <<<<"c","a","m","b","r","i","d","g","e",","," ","m","a">>,
        <<"C","a","m","b","r","i","d","g","e">>>>,
      <<<<"s","o","m","e","r","v","i","l","l","e">>,
        <<"S","o","m","e","r","v","i","l","l","e">>>>,
      <<<<"s","o","m","e","r","v","i","l","l","e",","," ","m","a">>,
        <<"S","o","m","e","r","v","i","l","l","e">>>>,
      <<<<"a","l","l","s","t","o","n">>,
        <<"A","l","l","s","t","o","n">>>>,
      <<<<"a","l","l","s","t","o","n",","," ","m","a">>,
        <<"A","l","l","s","t","o","n">>>>,
      <<<<"j","a","m","a","i","c","a"," ","p","l","a","i","n">>,
        <<"J","a","m","a","i","c","a"," ","P","l","a","i","n">>>>,
      <<<<"j","p">>,
        <<"J","a","m","a","i","c","a"," ","P","l","a","i","n">>>>,
      <<<<"b","r","o","o","k","l","i","n","e">>,
        <<"B","r","o","o","k","l","i","n","e">>>>,
      <<<<"w","o","r","c","e","s","t","e","r">>,
        <<"W","o","r","c","e","s","t","e","r">>>>,
      <<<<"p","r","o","v","i","d","e","n","c","e">>,
        <<"P","r","o","v","i","d","e","n","c","e">>>>,
      <<<<"p","r","o","v","i","d","e","n","c","e",","," ","r","i">>,
        <<"P","r","o","v","i","d","e","n","c","e">>>>,
      <<<<"o","r","l","a","n","d","o">>,
        <<"B","o","s","t","o","n">>>>
    }

_normalize_location(location, venue_id) ==
    IF location = <<>> THEN <<"B","o","s","t","o","n">>
    ELSE IF venue_id # <<>> /\ \E e \in venue_location_fixes : e[1] = venue_id
    THEN DictGet(venue_location_fixes, venue_id, <<>>)
    ELSE DictGet(loc_map, Lower(Strip(location)), Strip(location))

\* the int at the start of a str, as re.match(r'(\d+)', time) and int() read it
LeadingInt(s) == DigitsToInt(SubSeq(s, 1, DigitPrefixLen(s)))

\* str(int) for the hours that occur
IntToStr(n) ==
    IF n < 0 THEN <<"-">> \o <<DigitChars[(0 - n) + 1]>>
    ELSE IF n < 10 THEN <<DigitChars[n + 1]>>
    ELSE <<DigitChars[(n \div 10) + 1], DigitChars[(n % 10) + 1]>>

\* re.sub(r':00', '', time)
RECURSIVE RemoveColon00(_)
RemoveColon00(s) ==
    IF s = <<>> THEN <<>>
    ELSE IF StartsWith(s, <<":","0","0">>) THEN RemoveColon00(From(s, 4))
    ELSE <<Head(s)>> \o RemoveColon00(Tail(s))

\* lines 462-471: a time without am or pm is read as an hour of the
\* afternoon
AssumePm(time) ==
    IF ~(Contains(time, <<"a","m">>) \/ Contains(time, <<"p","m">>))
       /\ DigitPrefixLen(time) > 0
    THEN IF LeadingInt(time) < 12
         THEN IntToStr(LeadingInt(time)) \o <<"p","m">>
         ELSE IntToStr(LeadingInt(time) - 12) \o <<"p","m">>
    ELSE time

_normalize_time(time) ==
    IF time = <<>> THEN <<"8","p","m">>
    ELSE RemoveColon00(AssumePm(SelectSeq(Strip(Lower(time)), LAMBDA c : c # " ")))

_normalize_age(age) ==
    IF age = <<>> THEN <<"a","/","a">>
    ELSE LET a1 == Strip(Lower(age))
         IN  IF Contains(a1, <<"a","l","l">>) \/ a1 = <<"a","a">> THEN <<"a","/","a">>
             ELSE IF Contains(a1, <<"2","1">>) THEN <<"2","1","+">>
             ELSE IF Contains(a1, <<"1","8">>) THEN <<"1","8","+">>
             ELSE <<"a","/","a">>

(***************************************************************************)
(* processors/deduplicator.py: the pure helpers                            *)
(***************************************************************************)
SIMILARITY_THRESHOLD == 80

Cities == { <<"b","o","s","t","o","n">>, <<"c","a","m","b","r","i","d","g","e">>, <<"s","o","m","e","r","v","i","l","l","e">>, <<"b","r","o","o","k","l","i","n","e">>,
            <<"a","l","l","s","t","o","n">>, <<"b","r","i","g","h","t","o","n">> }

\* does r'\s*[-U+2013]\s*(boston|cambridge|...)' match s at position p
CitySuffixAt(s, p) ==
    LET r == LStrip(From(s, p))
    IN  /\ r # <<>>
        /\ r[1] \in {"-", "U+2013"}
        /\ \E city \in Cities : StartsWith(Lower(LStrip(Tail(r))), city)

\* re.sub(r'^the\s+', '', name)
StripLeadingThe(name) ==
    IF StartsWith(name, <<"t","h","e">>) /\ Len(name) > 3 /\ IsSpace(name[4])
    THEN LStrip(From(name, 4)) ELSE name

\* re.sub(r',\s*the$', '', name)
StripCommaThe(name) ==
    LET q == RStrip(SubSeq(name, 1, Len(name) - 3))
    IN  IF EndsWith(name, <<"t","h","e">>) /\ q # <<>> /\ q[Len(q)] = ","
        THEN SubSeq(q, 1, Len(q) - 1) ELSE name

\* re.sub(r'\s*[-U+2013]\s*(boston|...).*$', '', name, flags=re.I)
StripCitySuffix(name) ==
    LET cs == {p \in 1..Len(name) : CitySuffixAt(name, p)}
    IN  IF cs = {} THEN name
        ELSE SubSeq(name, 1, (CHOOSE p \in cs : \A o \in cs : p <= o) - 1)

_normalize_name(name) ==
    Strip(CollapseSpaces(RemovePunct(
        StripCitySuffix(StripCommaThe(StripLeadingThe(Strip(Lower(name))))))))

\* the hour of the 24-hour clock, from the hour read and the text after the
\* minutes
Hour24(hour, suffix) ==
    IF StartsWith(suffix, <<"p","m">>) /\ hour # 12 THEN hour + 12
    ELSE IF StartsWith(suffix, <<"a","m">>) /\ hour = 12 THEN 0
    ELSE hour

\* the groups of r'(\d+)(?::(\d+))?\s*(am|pm)?' on t: hl digits of
\* hour, then ml digits of minutes after a colon
ParseClock(t, hl, ml) ==
    Hour24(DigitsToInt(SubSeq(t, 1, hl)),
           LStrip(From(t, IF ml > 0 THEN hl + ml + 2 ELSE hl + 1))) * 60
    + (IF ml > 0 THEN DigitsToInt(SubSeq(t, hl + 2, hl + ml + 1)) ELSE 0)

ParseMinutes(t, hl) ==
    ParseClock(t, hl, IF hl < Len(t) /\ t[hl + 1] = ":"
                      THEN DigitPrefixLen(From(t, hl + 2)) ELSE 0)

\* parse_time of _times_similar: minutes since midnight, -1 if no match
ParseStripped(t) ==
    IF DigitPrefixLen(t) = 0 THEN 0 - 1 ELSE ParseMinutes(t, DigitPrefixLen(t))

parse_time(t) == ParseStripped(Strip(Lower(t)))

\* a value that is not a str (an int): the code's str methods raise on it
NotAStr == <<"<int>">>

(***************************************************************************)
(* models/concert.py: a Concert, with the defaults of the dataclass.  The   *)
(* date is the calendar day, the hour of the nominal start time and        *)
(* whether the datetime carries a tzinfo.                                  *)
(***************************************************************************)
Concert(date, venue_id, venue_name, bands, source) ==
    [date |-> date, venue_id |-> venue_id, venue_name |-> venue_name,
     venue_location |-> <<>>, bands |-> bands,
     age_requirement |-> <<"a","/","a">>, price_advance |-> <<>>, price_door |-> <<>>,
     time |-> <<"8","p","m">>, flags |-> <<>>, source |-> source,
     source_url |-> <<>>, genre_tags |-> <<>>]

\* a grouping by the month: all the dates of the model are in one month
date_key_by_month(c) == c.date.day \div 32

\* date_key of deduplicate_concerts: concert.date.strftime("%Y-%m-%d")
date_key(c) == c.date.day

(***************************************************************************)
(* The input batches.  MaxRecs bounds the length of a batch drawn from      *)
(* Pool; PairInputs are the batches of two same-day records whose venue,    *)
(* headliner, time, prices, age and supporting acts vary independently.     *)
(***************************************************************************)
MaxRecs == 3

Day1 == [day |-> 1, hour |-> 0, tz |-> FALSE]
Day1Evening == [day |-> 1, hour |-> 19, tz |-> TRUE]
Day2 == [day |-> 2, hour |-> 0, tz |-> FALSE]

Pool == {
    \* a full listing of "Pile" at Royale
    [Concert(Day1, <<"r","o","y","a","l","e">>, <<"R","o","y","a","l","e">>, <<<<"P","i","l","e">>>>, <<"t","i","c","k","e","t","m","a","s","t","e","r">>)
        EXCEPT !.age_requirement = <<"2","1","+">>, !.price_advance = <<20>>,
               !.flags = <<<<"@">>>>, !.genre_tags = <<<<"p","u","n","k">>>>,
               !.source_url = <<"u">>, !.venue_location = <<"b","o","s","t","o","n",","," ","m","a">>],
    \* a sparse listing with a misspelt headliner
    [Concert(Day1, <<"r","o","y","a","l","e","_","b","o","s","t","o","n">>, <<"r","o","y","a","l","e"," ","b","o","s","t","o","n">>, <<<<"P","i","l","e","s">>>>, <<"s","c","r","a","p","e",":","d","o","6","1","7">>)
        EXCEPT !.age_requirement = <<>>, !.time = <<"7",":","3","0">>,
               !.flags = <<<<"$">>>>, !.genre_tags = <<<<"r","o","c","k">>>>],
    \* another show of the same room and day, close in name to the misspelling
    [Concert(Day1, <<"r","o","y","a","l","e">>, <<"R","o","y","a","l","e">>, <<<<"M","i","l","e","s">>, <<"C","a","v","e"," ","I","n">>>>,
             <<"s","c","r","a","p","e",":","s","a","f","e","_","i","n","_","a","_","c","r","o","w","d">>)
        EXCEPT !.time = <<"9","p","m">>],
    \* the first show as a source with start times in the datetime lists it
    [Concert(Day1Evening, <<"R","o","y","a","l","e">>, <<"R","o","y","a","l","e">>, <<<<"P","I","L","E"," ">>>>, <<"t","i","c","k","e","t","m","a","s","t","e","r">>)
        EXCEPT !.time = <<"7",":","0","0"," ","P","M">>, !.price_door = <<25>>],
    \* the same act in the same room on the next day
    Concert(Day2, <<"r","o","y","a","l","e">>, <<"R","o","y","a","l","e">>, <<<<"P","i","l","e">>>>, <<"s","c","r","a","p","e",":","d","o","6","1","7">>),
    \* a listing with no act name
    Concert(Day1, <<"r","o","y","a","l","e">>, <<"R","o","y","a","l","e">>, <<<<" "," ">>, <<>>>>, <<"s","c","r","a","p","e",":","d","o","6","1","7">>),
    \* a listing whose venue id is blank
    Concert(Day1, <<" ">>, <<"R","o","y","a","l","e">>, <<<<"P","i","l","e">>>>, <<"s","e","a","t","g","e","e","k">>),
    \* a listing whose venue id is an int
    Concert(Day1, NotAStr, <<"P","a","r","a","d","i","s","e">>, <<<<"P","i","l","e"," ">>>>, <<"s","e","a","t","g","e","e","k">>) }

PoolInputs ==
    UNION {[1..n -> Pool] : n \in 1..MaxRecs}

PairFirst ==
    {[Concert(Day1, <<"r","o","y","a","l","e">>, <<"R","o","y","a","l","e">>, <<hd>> \o sup, <<"t","i","c","k","e","t","m","a","s","t","e","r">>)
         EXCEPT !.price_advance = pa, !.price_door = pd, !.flags = fl] :
        hd \in {<<"C","a","v","e"," ","I","n">>, <<"C","a","v","e"," ","I","n",":"," ","T","o","u","r">>},
        sup \in {<<>>, <<<<"M","i","l","e","s">>>>},
        pa \in {<<>>, <<20>>},
        pd \in {<<>>, <<25>>},
        fl \in {<<>>, <<<<"$">>, <<"@">>>>}}

PairVenues == {
    <<<<"r","o","y","a","l","e">>, <<"R","o","y","a","l","e">>>>,
    <<<<"r","o","y","a","l","e">>, <<"B","i","g"," ","N","i","g","h","t"," ","L","i","v","e">>>>,
    <<<<"r","o","y","a","l","e","_","a","n","n","e","x">>, <<"T","h","e"," ","R","o","y","a","l","e">>>>,
    <<<<"s","a","l","l","y","o","b","r","i","e","n","s">>, <<"S","a","l","l","y"," ","O","'","B","r","i","e","n","'","s">>>> }

PairSecond ==
    {[Concert(Day1, vn[1], vn[2], <<hd>> \o sup, <<"s","c","r","a","p","e",":","d","o","6","1","7">>)
         EXCEPT !.price_advance = pa, !.price_door = pd, !.time = tm,
                !.age_requirement = ag] :
        vn \in PairVenues,
        hd \in {<<"C","a","v","e"," ","I","n">>, <<"C","a","v","e"," ","I","n",":"," ","T","o","u","r">>, <<"P","i","l","e">>},
        sup \in {<<>>, <<<<"M","i","l","e","s">>>>},
        pa \in {<<>>, <<0>>, <<20>>},
        pd \in {<<>>, <<25>>},
        tm \in {<<"8","p","m">>, <<"9","p","m">>},
        ag \in {<<"a","/","a">>, <<"2","1","+">>}}

PairInputs == {<<a, b>> : a \in PairFirst, b \in PairSecond}

\* batches of two same-day records at one venue with one act each, the first
\* with more information than the second; the names are pairs of spellings
\* with ratios of 94.1, of 90 and, for the long ones, of 91.4
ActNames == {
    <<"M","a","s","t","o","d","o","n">>, <<"M","a","s","t","o","d","o","n","s">>,
    <<"M","e","t","a","l","l","i","c","a">>, <<"M","e","t","a","l","l","i","c","a","'","s">>,
    <<"K","e","n","n","y"," ","W","a","y","n","e"," ","S","h","e","p","h","e","r","d"," ","a","n","d"," ","F","r","i","e","n","d","s">>,
    <<"K","e","n","n","y"," ","W","a","y","n","e"," ","S","h","e","p","h","e","r","d"," ","a","n","d"," ","F","r","i","e","n","d","s",":"," ","T","o","u","r">> }

ActFirst ==
    {[Concert(Day1, <<"r","o","y","a","l","e">>, <<"R","o","y","a","l","e">>, <<act>>, <<"t","i","c","k","e","t","m","a","s","t","e","r">>)
         EXCEPT !.price_advance = <<20>>, !.flags = <<<<"$">>, <<"@">>>>] :
        act \in ActNames}

ActSecond ==
    {Concert(Day1, <<"r","o","y","a","l","e">>, <<"R","o","y","a","l","e">>, <<act>>, <<"s","c","r","a","p","e",":","d","o","6","1","7">>) :
        act \in ActNames}

ActInputs == {<<a, b>> : a \in ActFirst, b \in ActSecond}

\* records of one show, from sources of every rank of the priority table and
\* from sources that it does not list, some of them as rich as each other;
\* the batches are the lists of two or three of them, in every order and
\* with repeats
Show(source) == Concert(Day1, <<"r","o","y","a","l","e">>, <<"R","o","y","a","l","e">>, <<<<"P","i","l","e">>>>, source)

RankPool == {
    [Show(<<"t","i","c","k","e","t","m","a","s","t","e","r">>)
        EXCEPT !.price_advance = <<20>>, !.flags = <<<<"$">>, <<"@">>>>,
               !.genre_tags = <<<<"p","u","n","k">>, <<"p","u","n","k">>>>],
    [Show(<<"s","c","r","a","p","e",":","s","a","f","e","_","i","n","_","a","_","c","r","o","w","d">>) EXCEPT !.time = <<"9","p","m">>],
    [Show(<<"s","c","r","a","p","e",":","d","o","6","1","7">>) EXCEPT !.age_requirement = <<"2","1","+">>],
    [Show(<<"s","c","r","a","p","e",":","d","o","6","1","7">>) EXCEPT !.time = <<"8",":","3","0","p","m">>],
    [Show(<<"s","c","r","a","p","e",":","d","o","6","1","7">>) EXCEPT !.time = <<"1","0","p","m">>],
    [Show(<<"b","a","n","d","s","i","n","t","o","w","n">>)
        EXCEPT !.flags = <<<<"$">>>>, !.genre_tags = <<<<"p","u","n","k">>, <<"r","o","c","k">>>>] }

RankInputs == UNION {[1..n -> RankPool] : n \in 2..MaxRecs}

\* days of one record more than MaxRecs, of the listings of Pool for the
\* first day that have an act name and a venue id that is a str
LongDay == MaxRecs + 1

LongDayPool ==
    {c \in Pool : /\ c.date = Day1
                  /\ c.venue_id # NotAStr
                  /\ c.bands[1] \in {<<"P","i","l","e">>, <<"P","i","l","e","s">>, <<"M","i","l","e","s">>}}

LongDayInputs == [1..LongDay -> LongDayPool]

\* single records whose act names and times are written in the ways that the
\* sources write them
TextBands == {
    <<"T","h","e"," ","C","u","r","e">>, <<"T","H","E"," ","C","U","R","E">>, <<"t","h","e"," ","c","u","r","e">>, <<"T","h","e"," ","T","h","e"," ","C","u","r","e">>,
    <<"T","h","e"," ","C","u","r","e"," ","B","a","n","d">>, <<"T","h","e","o","r","y">>, <<"P","i","l","e">> }

TextTimes == {
    <<"7",":","3","0">>, <<"2","0",":","3","0">>, <<"8",":","0","0">>, <<"1","2",":","3","0">>, <<"1","9",":","0","0">>, <<"7">>,
    <<"7",":","3","0","p","m">>, <<"8",":","3","0","p","m">>, <<"8","p","m">>, <<"1","2",":","3","0","p","m">>, <<"7","p","m">>, <<"8",":","0","0"," ","P","M">>, <<"1","1","a","m">> }

TextInputs ==
    {<<[Show(<<"s","c","r","a","p","e",":","d","o","6","1","7">>) EXCEPT !.bands = <<band>>, !.time = time]>> :
        band \in TextBands, time \in TextTimes}

\* batches of two records of one show whose venue ids are written as slugs
\* or as names
VenueIdSpellings == {
    <<"r","o","y","a","l","e">>, <<"R","o","y","a","l","e">>, <<"r","o","y","a","l","e","_","b","o","s","t","o","n">>, <<"R","o","y","a","l","e"," ","B","o","s","t","o","n">>, <<"R","O","Y","A","L","E","_","B","O","S","T","O","N">>,
    <<"p","a","r","a","d","i","s","e","_","r","o","c","k","_","c","l","u","b">>, <<"P","a","r","a","d","i","s","e"," ","R","o","c","k"," ","C","l","u","b">> }

VenueIdInputs ==
    {<<[Show(<<"t","i","c","k","e","t","m","a","s","t","e","r">>) EXCEPT !.venue_id = first],
       [Show(<<"s","c","r","a","p","e",":","d","o","6","1","7">>) EXCEPT !.venue_id = second]>> :
        first \in VenueIdSpellings, second \in VenueIdSpellings}

(***************************************************************************)
(* Tables of the str helpers on the strings that occur in the input        *)
(* batches, computed once.  A helper applied to any other string is        *)
(* computed from its definition.                                           *)
(***************************************************************************)
Cached(table, key, value) == IF key \in DOMAIN table THEN table[key] ELSE value

AllRaw ==
    Pool \cup PairFirst \cup PairSecond \cup ActFirst \cup ActSecond \cup RankPool
    \cup {batch[1] : batch \in TextInputs}
    \cup UNION {Range(batch) : batch \in VenueIdInputs}

RawBands == UNION {Range(c.bands) : c \in AllRaw}

memo_normalize_band_name == [s \in RawBands |-> _normalize_band_name(s)] @@ <<>>

m_normalize_band_name(name) ==
    Cached(memo_normalize_band_name, name, _normalize_band_name(name))

memo_normalize_venue_id ==
    [p \in {<<c.venue_id, c.venue_name>> : c \in {c \in AllRaw : c.venue_id # NotAStr}}
        |-> _normalize_venue_id_with_name(p[1], p[2])] @@ <<>>

m_normalize_venue_id_with_name(venue_id, venue_name) ==
    Cached(memo_normalize_venue_id, <<venue_id, venue_name>>,
           _normalize_venue_id_with_name(venue_id, venue_name))

memo_normalize_venue_name ==
    [s \in {c.venue_name : c \in AllRaw} |-> _normalize_venue_name(s)] @@ <<>>

m_normalize_venue_name(name) ==
    Cached(memo_normalize_venue_name, name, _normalize_venue_name(name))

memo_normalize_time == [s \in {c.time : c \in AllRaw} |-> _normalize_time(s)] @@ <<>>

m_normalize_time(time) == Cached(memo_normalize_time, time, _normalize_time(time))

memo_normalize_age ==
    [s \in {c.age_requirement : c \in AllRaw} |-> _normalize_age(s)] @@ <<>>

m_normalize_age(age) == Cached(memo_normalize_age, age, _normalize_age(age))

\* the band names and venue names that _are_duplicates can be given
BandNames == {memo_normalize_band_name[s] : s \in RawBands} \ {<<>>}

VenueKeys ==
    {memo_normalize_venue_name[c.venue_name] : c \in AllRaw}
    \cup {memo_normalize_venue_id[p] : p \in DOMAIN memo_normalize_venue_id}

memo_normalize_name ==
    [s \in BandNames \cup VenueKeys |-> _normalize_name(s)] @@ <<>>

m_normalize_name(name) == Cached(memo_normalize_name, name, _normalize_name(name))

memo_parse_time ==
    [s \in {memo_normalize_time[t] : t \in DOMAIN memo_normalize_time}
        |-> parse_time(s)] @@ <<>>

m_parse_time(t) == Cached(memo_parse_time, t, parse_time(t))

memo_lcs ==
    [p \in ({memo_normalize_name[s] : s \in BandNames} \X
            {memo_normalize_name[s] : s \in BandNames})
           \cup ({memo_normalize_name[s] : s \in VenueKeys} \X
                 {memo_normalize_name[s] : s \in VenueKeys})
           \cup ({Lower(s) : s \in BandNames} \X {Lower(s) : s \in BandNames})
        |-> LcsLen(p[1], p[2])] @@ <<>>

m_lcs(a, b) == Cached(memo_lcs, <<a, b>>, LcsLen(a, b))

\* fuzz.ratio(a, b) >= t
FuzzRatioGE(a, b, t) ==
    IF Len(a) + Len(b) = 0 THEN 100 >= t
    ELSE 200 * m_lcs(a, b) >= t * (Len(a) + Len(b))

\* fuzz.ratio(a, b) > t
FuzzRatioGT(a, b, t) ==
    IF Len(a) + Len(b) = 0 THEN 100 > t
    ELSE 200 * m_lcs(a, b) > t * (Len(a) + Len(b))

_times_similar(time_a, time_b) ==
    LET mins_a == m_parse_time(time_a)
        mins_b == m_parse_time(time_b)
    IN  IF mins_a < 0 \/ mins_b < 0
        THEN Lower(time_a) = Lower(time_b)
        ELSE mins_a - mins_b <= 30 /\ mins_b - mins_a <= 30

\* Concert.headliner
headliner(c) == IF c.bands # <<>> THEN c.bands[1] ELSE <<>>

\* a.venue_name or a.venue_id
VenueKey(c) == IF c.venue_name # <<>> THEN c.venue_name ELSE c.venue_id

\* fuzz.ratio(venue_a, venue_b) >= SIMILARITY_THRESHOLD, lines 113-117
VenueNameSimilar(a, b) ==
    FuzzRatioGE(m_normalize_name(VenueKey(a)), m_normalize_name(VenueKey(b)),
                SIMILARITY_THRESHOLD)

\* venue_similar of _are_duplicates, lines 113-121
VenueSimilar(a, b) ==
    \/ VenueNameSimilar(a, b)
    \/ /\ a.venue_id # <<>>
       /\ b.venue_id # <<>>
       /\ Lower(a.venue_id) = Lower(b.venue_id)

\* headliner_similar of _are_duplicates, lines 127-132
HeadlinerSimilar(a, b) ==
    /\ a.bands # <<>>
    /\ b.bands # <<>>
    /\ FuzzRatioGE(m_normalize_name(headliner(a)), m_normalize_name(headliner(b)),
                   SIMILARITY_THRESHOLD)

\* has_overlap of _are_duplicates, lines 169-179
SupportOverlap(a, b) ==
    \E band_a \in {m_normalize_name(a.bands[i]) : i \in 2..Len(a.bands)} :
       \E band_b \in {m_normalize_name(b.bands[i]) : i \in 2..Len(b.bands)} :
          FuzzRatioGE(band_a, band_b, SIMILARITY_THRESHOLD)

Bit(p) == IF p THEN 1 ELSE 0

\* a variant of total_checks in which a price is a check only if both
\* records give it
total_checks_of_both(a, b) ==
      Bit(a.time # <<>> /\ b.time # <<>>)
    + Bit(a.price_advance # <<>> /\ b.price_advance # <<>>)
    + Bit(a.price_door # <<>> /\ b.price_door # <<>>)
    + Bit(a.age_requirement # <<>> /\ b.age_requirement # <<>>)
    + Bit(Len(a.bands) > 1 /\ Len(b.bands) > 1)

\* total_checks and match_count of _are_duplicates, lines 141-181
total_checks(a, b) ==
      Bit(a.time # <<>> /\ b.time # <<>>)
    + Bit(a.price_advance # <<>> \/ b.price_advance # <<>>)
    + Bit(a.price_door # <<>> \/ b.price_door # <<>>)
    + Bit(a.age_requirement # <<>> /\ b.age_requirement # <<>>)
    + Bit(Len(a.bands) > 1 /\ Len(b.bands) > 1)

match_count(a, b) ==
      Bit(a.time # <<>> /\ b.time # <<>> /\ _times_similar(a.time, b.time))
    + Bit((a.price_advance # <<>> \/ b.price_advance # <<>>)
          /\ a.price_advance = b.price_advance)
    + Bit((a.price_door # <<>> \/ b.price_door # <<>>)
          /\ a.price_door = b.price_door)
    + Bit(a.age_requirement # <<>> /\ b.age_requirement # <<>>
          /\ a.age_requirement = b.age_requirement)
    + Bit(Len(a.bands) > 1 /\ Len(b.bands) > 1 /\ SupportOverlap(a, b))

\* a variant of MajorityMatch in which half of the checks are enough
MajorityMatch_with_half(a, b) ==
    /\ total_checks(a, b) >= 3
    /\ match_count(a, b) >= total_checks(a, b) \div 2

\* the majority vote of _are_duplicates, line 185
MajorityMatch(a, b) ==
    /\ total_checks(a, b) >= 3
    /\ match_count(a, b) >= (total_checks(a, b) \div 2) + 1

\* _are_duplicates raises AttributeError: a str method is called on a venue_id
\* that is not a str (line 113, 114 or 121)
AreDuplicatesRaises(a, b) ==
    \/ a.venue_name = <<>> /\ a.venue_id = NotAStr
    \/ b.venue_name = <<>> /\ b.venue_id = NotAStr
    \/ /\ NotAStr \in {a.venue_id, b.venue_id}
       /\ ~VenueNameSimilar(a, b)
       /\ a.venue_id # <<>>
       /\ b.venue_id # <<>>

\* variants of _are_duplicates: one decides by the vote alone, one does not
\* look at the venues
_are_duplicates_by_vote_only(a, b) ==
    VenueSimilar(a, b) /\ MajorityMatch(a, b)

_are_duplicates_at_any_venue(a, b) ==
    HeadlinerSimilar(a, b) \/ MajorityMatch(a, b)

\* _are_duplicates, when it does not raise
_are_duplicates(a, b) ==
    IF ~VenueSimilar(a, b) THEN FALSE
    ELSE IF HeadlinerSimilar(a, b) THEN TRUE
    ELSE MajorityMatch(a, b)

_info_richness_score(c) ==
      (IF c.bands # <<>>
       THEN (Len(c.bands[1]) \div 10)
            + (IF \/ Contains(c.bands[1], <<":">>)
                  \/ Contains(c.bands[1], <<"-">>)
                  \/ Contains(Lower(c.bands[1]), <<"t","o","u","r">>)
               THEN 5 ELSE 0)
       ELSE 0)
    + Len(c.bands) * 2
    + (IF c.price_advance # <<>> THEN 3 ELSE 0)
    + (IF c.price_door # <<>> THEN 3 ELSE 0)
    + Len(c.flags) * 4
    + (IF c.age_requirement # <<>> /\ c.age_requirement # <<"a","/","a">> THEN 2 ELSE 0)
    + (IF c.time # <<>> /\ c.time # <<"8","p","m">> THEN 2 ELSE 0)
    + Len(c.genre_tags)
    + (IF c.source_url # <<>> THEN 2 ELSE 0)

source_priority == {
      <<<<"t","i","c","k","e","t","m","a","s","t","e","r">>, 1>>,
      <<<<"s","c","r","a","p","e",":","s","a","f","e","_","i","n","_","a","_","c","r","o","w","d">>, 2>>,
      <<<<"s","c","r","a","p","e",":","m","i","d","d","l","e","_","e","a","s","t">>, 3>>,
      <<<<"s","c","r","a","p","e",":","d","o","6","1","7">>, 4>> }

\* a variant of SortKeyLess that sorts by richness alone and leaves members
\* of equal richness in the order of the list
SortKeyLess_by_richness_only(c, d) ==
    _info_richness_score(c) > _info_richness_score(d)

\* the sort key of line 285, compared as Python compares tuples
SortKeyLess(c, d) ==
    \/ _info_richness_score(c) > _info_richness_score(d)
    \/ /\ _info_richness_score(c) = _info_richness_score(d)
       /\ DictGet(source_priority, c.source, 99) < DictGet(source_priority, d.source, 99)

\* list.sort(key=...): stable.  SortOrder(cs)[r] is the position in cs of
\* the element that the sort puts at position r
SortOrder(cs) ==
    LET before(i, j) == SortKeyLess(cs[i], cs[j])
                        \/ (~SortKeyLess(cs[j], cs[i]) /\ i < j)
        rank(i) == Cardinality({j \in 1..Len(cs) : j # i /\ before(j, i)}) + 1
    IN  [r \in 1..Len(cs) |-> CHOOSE i \in 1..Len(cs) : rank(i) = r]

\* a variant of BandHits in which a ratio of exactly 90 is a match
BandHits_from_90(all_bands, band) ==
    {i \in 1..Len(all_bands) : FuzzRatioGE(Lower(band), Lower(all_bands[i]), 90)}

\* lines 302-304: the positions of all_bands that band matches
BandHits(all_bands, band) ==
    {i \in 1..Len(all_bands) : FuzzRatioGT(Lower(band), Lower(all_bands[i]), 90)}

\* a variant of UpgradeBand that takes any longer name
UpgradeBand_if_longer(all_bands, band, first) ==
    IF Len(band) > Len(all_bands[first])
    THEN [all_bands EXCEPT ![first] = band]
    ELSE all_bands

\* lines 307-310: the first match is replaced by a name more than 5 longer
UpgradeBand(all_bands, band, first) ==
    IF Len(band) > Len(all_bands[first]) + 5
    THEN [all_bands EXCEPT ![first] = band]
    ELSE all_bands

\* lines 298-312: one band of the member
MergeBand(all_bands, band, hits) ==
    IF band = <<>> THEN all_bands
    ELSE IF hits = {} THEN Append(all_bands, band)
    ELSE UpgradeBand(all_bands, band, CHOOSE i \in hits : \A o \in hits : i <= o)

\* lines 296-313: fold the bands of one member into all_bands
RECURSIVE MergeBands(_, _)
MergeBands(all_bands, bands) ==
    IF bands = <<>> THEN all_bands
    ELSE MergeBands(MergeBand(all_bands, Head(bands), BandHits(all_bands, Head(bands))),
                    Tail(bands))

\* Python truthiness of an Optional[int]
Truthy(price) == price # <<>> /\ price[1] # 0

\* a variant of MergeOne that takes the time and the age requirement of the
\* other member whenever they are not the default
MergeOne_overwriting(best, concert) ==
    [best EXCEPT
        !.bands = MergeBands(best.bands, concert.bands),
        !.price_advance = IF ~Truthy(best.price_advance) /\ Truthy(concert.price_advance)
                          THEN concert.price_advance ELSE @,
        !.price_door = IF ~Truthy(best.price_door) /\ Truthy(concert.price_door)
                       THEN concert.price_door ELSE @,
        !.flags = SortedSet(Range(best.flags) \cup Range(concert.flags)),
        !.genre_tags = SortedSet(Range(best.genre_tags) \cup Range(concert.genre_tags)),
        !.time = IF concert.time # <<"8","p","m">> THEN concert.time ELSE @,
        !.age_requirement =
            IF concert.age_requirement # <<"a","/","a">> THEN concert.age_requirement ELSE @]

\* a variant of MergeOne that takes the flags and the genre tags of the other
\* member only where the base has none, as it does the prices
MergeOne_filling_empty_lists(best, concert) ==
    [best EXCEPT
        !.bands = MergeBands(best.bands, concert.bands),
        !.price_advance = IF ~Truthy(best.price_advance) /\ Truthy(concert.price_advance)
                          THEN concert.price_advance ELSE @,
        !.price_door = IF ~Truthy(best.price_door) /\ Truthy(concert.price_door)
                       THEN concert.price_door ELSE @,
        !.flags = IF best.flags = <<>> THEN SortedSet(Range(concert.flags)) ELSE @,
        !.genre_tags = IF best.genre_tags = <<>>
                       THEN SortedSet(Range(concert.genre_tags)) ELSE @,
        !.time = IF best.time = <<"8","p","m">> /\ concert.time # <<"8","p","m">>
                 THEN concert.time ELSE @,
        !.age_requirement =
            IF best.age_requirement = <<"a","/","a">> /\ concert.age_requirement # <<"a","/","a">>
            THEN concert.age_requirement ELSE @]

\* one iteration of the loop of lines 294-333; flags and genre_tags are kept as
\* sets here, their list order is chosen in MergeOutcomes
MergeOne(best, concert) ==
    [best EXCEPT
        !.bands = MergeBands(best.bands, concert.bands),
        !.price_advance = IF ~Truthy(best.price_advance) /\ Truthy(concert.price_advance)
                          THEN concert.price_advance ELSE @,
        !.price_door = IF ~Truthy(best.price_door) /\ Truthy(concert.price_door)
                       THEN concert.price_door ELSE @,
        !.flags = SortedSet(Range(best.flags) \cup Range(concert.flags)),
        !.genre_tags = SortedSet(Range(best.genre_tags) \cup Range(concert.genre_tags)),
        !.time = IF best.time = <<"8","p","m">> /\ concert.time # <<"8","p","m">>
                 THEN concert.time ELSE @,
        !.age_requirement =
            IF best.age_requirement = <<"a","/","a">> /\ concert.age_requirement # <<"a","/","a">>
            THEN concert.age_requirement ELSE @]

RECURSIVE MergeLoop(_, _)
MergeLoop(best, others) ==
    IF others = <<>> THEN best
    ELSE MergeLoop(MergeOne(best, Head(others)), Tail(others))

\* '+'.join(xs)
RECURSIVE JoinPlus(_)
JoinPlus(xs) ==
    IF xs = <<>> THEN <<>>
    ELSE IF Len(xs) = 1 THEN xs[1]
    ELSE xs[1] \o <<"+">> \o JoinPlus(Tail(xs))

\* a variant of MergedSource that joins the sources in the order of the members
MergedSource_in_member_order(concerts) ==
    IF Cardinality({concerts[i].source : i \in 1..Len(concerts)}) > 1
    THEN <<"m","e","r","g","e","d",":">> \o JoinPlus([i \in 1..Len(concerts) |-> concerts[i].source])
    ELSE concerts[1].source

\* lines 336-338
MergedSource(concerts) ==
    LET sources == {concerts[i].source : i \in 1..Len(concerts)}
    IN  IF Cardinality(sources) > 1
        THEN <<"m","e","r","g","e","d",":">> \o JoinPlus(SortedSet(sources))
        ELSE concerts[1].source

\* the orders in which list(set(xs)) can list the elements of xs: the
\* iteration order of a set of str is not fixed by the language and depends
\* on the hash seed of the process
ListOfSet(S) ==
    {xs \in [1..Cardinality(S) -> S] : Range(xs) = S}

\* _merge_concerts: the records it can return for the members in list order.
\* The returned object is the member that the sort puts first (MergeBase).
MergeBase(concerts) == SortOrder(concerts)[1]

\* line 285: the members as concerts.sort leaves them
SortedMembers(concerts) ==
    SubSeq([r \in 1..Len(concerts) |-> concerts[SortOrder(concerts)[r]]],
           1, Len(concerts))

\* lines 288-338 on the sorted members; flags and genre_tags still as sorted
\* lists
MergeSorted(sorted) ==
    [MergeLoop(sorted[1], Tail(sorted)) EXCEPT !.source = MergedSource(sorted)]

\* the list orders that lines 322 and 325 can leave
ListOrders(best) ==
    {[best EXCEPT !.flags = fl, !.genre_tags = gt] :
        fl \in ListOfSet(Range(best.flags)),
        gt \in ListOfSet(Range(best.genre_tags))}

\* a variant of MergeOutcomes without the early return of lines 274-275, in
\* which the lists of a single member are rebuilt from sets as well
MergeOutcomes_always_rebuilding(concerts) ==
    ListOrders(MergeSorted(SortedMembers(concerts)))

MergeOutcomes(concerts) ==
    IF Len(concerts) = 1 THEN {concerts[1]}
    ELSE ListOrders(MergeSorted(SortedMembers(concerts)))

(***************************************************************************)
(* The state of one run of cmd_process: normalize_concerts, then            *)
(* deduplicate_concerts.  Concert objects are mutable and shared between    *)
(* the lists, so the lists hold object ids and heap maps an id to the       *)
(* object's fields.                                                        *)
(***************************************************************************)
VARIABLES
    input,           \* the batch handed to normalize_concerts, as first read
    heap,            \* object id -> the fields of the Concert object
    pc,              \* where the run is
    norm_i,          \* normalize_concerts: the position of the for loop
    normalized,      \* normalize_concerts: the list normalized
    by_date,         \* deduplicate_concerts: by_date, as <<date_key, ids>> pairs
    day_i,           \* deduplicate_concerts: the position in by_date.items()
    deduplicated,    \* deduplicate_concerts: the list deduplicated
    idx_i,           \* _deduplicate_day: i
    idx_j,           \* _deduplicate_day: j
    merged_indices,  \* _deduplicate_day: merged_indices
    duplicates,      \* _deduplicate_day: duplicates
    day_result,      \* _deduplicate_day: result
    absorbed,        \* history: object id -> the id of the object it was merged into
    run,             \* the number of the run
    prev_output,     \* the records that the previous run returned
    venues_json,     \* venue_registry: the venues of data/venues.json
    _venues_by_id,   \* venue_registry: _venues_by_id, as <<key, value>> pairs
    _id_variants_map, \* venue_registry: _id_variants_map, as <<key, value>> pairs
    _loaded,         \* venue_registry: _loaded
    threads          \* the threads that call into venue_registry

pipeline_vars == <<input, heap, pc, norm_i, normalized, by_date, day_i,
                   deduplicated, idx_i, idx_j, merged_indices, duplicates,
                   day_result, absorbed, run, prev_output>>

registry_vars == <<venues_json, _venues_by_id, _id_variants_map, _loaded, threads>>

vars == <<pipeline_vars, registry_vars>>

dedup_vars == <<by_date, day_i, deduplicated, idx_i, idx_j, merged_indices,
                duplicates, day_result, absorbed>>

Ids == 1..Len(input)

\* the state at the call of normalize_concerts(concerts)
Start(batch) ==
    /\ heap = [n \in 1..Len(batch) |-> batch[n]]
    /\ pc = "normalize"
    /\ norm_i = 1
    /\ normalized = <<>>
    /\ by_date = <<>>
    /\ day_i = 1
    /\ deduplicated = <<>>
    /\ idx_i = 1
    /\ idx_j = 1
    /\ merged_indices = {}
    /\ duplicates = <<>>
    /\ day_result = <<>>
    /\ absorbed = [n \in 1..Len(batch) |-> 0]

Init ==
    /\ input \in PoolInputs \cup PairInputs \cup ActInputs \cup RankInputs
                \cup TextInputs \cup VenueIdInputs \cup LongDayInputs
    /\ Start(input)
    /\ run = 1
    /\ prev_output = <<>>
    /\ venues_json = <<>>
    /\ _venues_by_id = {}
    /\ _id_variants_map = {}
    /\ _loaded = FALSE
    /\ threads = <<>>

InitPool ==
    /\ input \in PoolInputs
    /\ Start(input)
    /\ run = 1
    /\ prev_output = <<>>
    /\ venues_json = <<>>
    /\ _venues_by_id = {}
    /\ _id_variants_map = {}
    /\ _loaded = FALSE
    /\ threads = <<>>

(***************************************************************************)
(* normalize_concerts, one iteration of its loop per step                  *)
(***************************************************************************)
\* lines 42-47 of _normalize_concert: the date and the bands
NormalizeEach(bands) ==
    [n \in 1..Len(bands) |-> m_normalize_band_name(bands[n])]

\* a variant of NormalizedBands without the second filter of line 47
NormalizedBands_keeping_empty(bands) ==
    NormalizeEach(SelectSeq(bands, LAMBDA b : b # <<>>))

NormalizedBands(bands) ==
    SelectSeq(NormalizeEach(SelectSeq(bands, LAMBDA b : b # <<>>)),
              LAMBDA b : b # <<>>)

DateAndBands(c) ==
    [c EXCEPT !.date = [@ EXCEPT !.tz = FALSE],
              !.bands = NormalizedBands(c.bands)]

\* lines 53-64 of _normalize_concert, on a venue_id that is a str
VenueTimeAgeFlags(c) ==
    [c EXCEPT !.venue_id = m_normalize_venue_id_with_name(c.venue_id, c.venue_name),
              !.venue_name = m_normalize_venue_name(c.venue_name),
              !.venue_location =
                  _normalize_location(
                      c.venue_location,
                      m_normalize_venue_id_with_name(c.venue_id, c.venue_name)),
              !.time = m_normalize_time(c.time),
              !.age_requirement = m_normalize_age(c.age_requirement),
              !.flags = SortedSet(Range(c.flags))]

\* _normalize_concert returns the concert
NormalizeOk ==
    /\ pc = "normalize"
    /\ norm_i <= Len(input)
    /\ DateAndBands(heap[norm_i]).bands # <<>>
    /\ heap[norm_i].venue_id # NotAStr
    /\ heap' = [heap EXCEPT ![norm_i] = VenueTimeAgeFlags(DateAndBands(@))]
    /\ normalized' = Append(normalized, norm_i)
    /\ norm_i' = norm_i + 1
    /\ UNCHANGED <<input, pc, dedup_vars, run, prev_output, registry_vars>>

\* _normalize_concert returns None: no act name is left
NormalizeDrop ==
    /\ pc = "normalize"
    /\ norm_i <= Len(input)
    /\ DateAndBands(heap[norm_i]).bands = <<>>
    /\ heap' = [heap EXCEPT ![norm_i] = DateAndBands(@)]
    /\ norm_i' = norm_i + 1
    /\ UNCHANGED <<input, pc, normalized, dedup_vars, run, prev_output, registry_vars>>

\* _normalize_concert raises at line 53 (venue_id.replace on an int); the
\* handler of normalize_concerts keeps the object as it is by then
NormalizeRaises ==
    /\ pc = "normalize"
    /\ norm_i <= Len(input)
    /\ DateAndBands(heap[norm_i]).bands # <<>>
    /\ heap[norm_i].venue_id = NotAStr
    /\ heap' = [heap EXCEPT ![norm_i] = DateAndBands(@)]
    /\ normalized' = Append(normalized, norm_i)
    /\ norm_i' = norm_i + 1
    /\ UNCHANGED <<input, pc, dedup_vars, run, prev_output, registry_vars>>

(***************************************************************************)
(* deduplicate_concerts                                                    *)
(***************************************************************************)
\* lines 33-38: the dict by_date in insertion order
RECURSIVE GroupByDate(_, _)
GroupByDate(groups, ids) ==
    IF ids = <<>> THEN groups
    ELSE LET key  == date_key(heap[Head(ids)])
             hits == {g \in 1..Len(groups) : groups[g][1] = key}
         IN  IF hits = {}
             THEN GroupByDate(Append(groups, <<key, <<Head(ids)>>>>), Tail(ids))
             ELSE GroupByDate(
                    [groups EXCEPT ![CHOOSE g \in hits : TRUE] =
                                       <<key, Append(@[2], Head(ids))>>],
                    Tail(ids))

\* normalize_concerts returns and deduplicate_concerts groups its argument
\* (lines 29-40)
Group ==
    /\ pc = "normalize"
    /\ norm_i > Len(input)
    /\ by_date' = GroupByDate(<<>>, normalized)
    /\ day_i' = 1
    /\ deduplicated' = <<>>
    /\ pc' = "days"
    /\ UNCHANGED <<input, heap, norm_i, normalized, idx_i, idx_j, merged_indices,
                   duplicates, day_result, absorbed, run, prev_output, registry_vars>>

\* the records of the day that the loop of line 42 is at
day_concerts == by_date[day_i][2]

\* _deduplicate_day returns its argument (lines 57-58)
DaySingle ==
    /\ pc = "days"
    /\ day_i <= Len(by_date)
    /\ Len(day_concerts) <= 1
    /\ deduplicated' = deduplicated \o day_concerts
    /\ day_i' = day_i + 1
    /\ UNCHANGED <<input, heap, pc, norm_i, normalized, by_date, idx_i, idx_j,
                   merged_indices, duplicates, day_result, absorbed, run,
                   prev_output, registry_vars>>

\* _deduplicate_day starts its loops (lines 61-69)
DayStart ==
    /\ pc = "days"
    /\ day_i <= Len(by_date)
    /\ Len(day_concerts) > 1
    /\ pc' = "scan"
    /\ idx_i' = 1
    /\ idx_j' = 2
    /\ merged_indices' = {}
    /\ day_result' = <<>>
    /\ duplicates' = <<day_concerts[1]>>
    /\ UNCHANGED <<input, heap, norm_i, normalized, by_date, day_i, deduplicated,
                   absorbed, run, prev_output, registry_vars>>

\* a variant of AlreadyMerged in which the inner loop skips no record
AlreadyMerged_never == FALSE

\* line 72: j in merged_indices
AlreadyMerged == idx_j \in merged_indices

\* lines 72-73: concert_b was merged before
ScanSkip ==
    /\ pc = "scan"
    /\ idx_j <= Len(day_concerts)
    /\ AlreadyMerged
    /\ idx_j' = idx_j + 1
    /\ UNCHANGED <<input, heap, pc, norm_i, normalized, by_date, day_i,
                   deduplicated, idx_i, merged_indices, duplicates, day_result,
                   absorbed, run, prev_output, registry_vars>>

concert_a == heap[day_concerts[idx_i]]
concert_b == heap[day_concerts[idx_j]]

\* lines 75-77: one call of _are_duplicates
ScanCompare ==
    /\ pc = "scan"
    /\ idx_j <= Len(day_concerts)
    /\ ~AlreadyMerged
    /\ ~AreDuplicatesRaises(concert_a, concert_b)
    /\ IF _are_duplicates(concert_a, concert_b)
       THEN /\ duplicates' = Append(duplicates, day_concerts[idx_j])
            /\ merged_indices' = merged_indices \cup {idx_j}
       ELSE UNCHANGED <<duplicates, merged_indices>>
    /\ idx_j' = idx_j + 1
    /\ UNCHANGED <<input, heap, pc, norm_i, normalized, by_date, day_i,
                   deduplicated, idx_i, day_result, absorbed, run, prev_output,
                   registry_vars>>

\* _are_duplicates raises and nothing catches it: deduplicate_concerts raises
ScanRaises ==
    /\ pc = "scan"
    /\ idx_j <= Len(day_concerts)
    /\ ~AlreadyMerged
    /\ AreDuplicatesRaises(concert_a, concert_b)
    /\ pc' = "raised"
    /\ UNCHANGED <<input, heap, norm_i, normalized, dedup_vars, run, prev_output,
                   registry_vars>>

\* a variant of NextOuter in which the loop of line 64 does not skip the
\* records that were merged before
NextOuter_revisiting_merged == (idx_i + 1)..Len(day_concerts)

\* the indices after idx_i that the loop of line 64 does not skip
NextOuter == {n \in (idx_i + 1)..Len(day_concerts) : n \notin merged_indices}

\* the objects that line 80 hands to _merge_concerts
members == [n \in 1..Len(duplicates) |-> heap[duplicates[n]]]

\* _merge_concerts changes the object it returns, base, in place and line 81
\* appends it to result; then the loop of line 64 goes on to the next
\* concert_a not merged before, and after the last one _deduplicate_day
\* returns (lines 83, 44)
MergeInto(base) ==
    /\ \E merged \in MergeOutcomes(members) :
          heap' = [heap EXCEPT ![base] = merged]
    /\ absorbed' = [n \in DOMAIN absorbed |->
                       IF n \in Range(duplicates) THEN base ELSE absorbed[n]]
    /\ IF NextOuter # {}
       THEN /\ idx_i' = CHOOSE n \in NextOuter : \A o \in NextOuter : n <= o
            /\ idx_j' = idx_i' + 1
            /\ duplicates' = <<day_concerts[idx_i']>>
            /\ day_result' = Append(day_result, base)
            /\ UNCHANGED <<pc, day_i, deduplicated>>
       ELSE /\ deduplicated' = deduplicated \o Append(day_result, base)
            /\ day_i' = day_i + 1
            /\ pc' = "days"
            /\ UNCHANGED <<idx_i, idx_j, duplicates, day_result>>

\* lines 80-81: the inner loop is over; merge the duplicates found
Merge ==
    /\ pc = "scan"
    /\ idx_j > Len(day_concerts)
    /\ MergeInto(duplicates[MergeBase(members)])
    /\ UNCHANGED <<input, norm_i, normalized, by_date, merged_indices, run,
                   prev_output, registry_vars>>

\* deduplicate_concerts returns deduplicated (line 52)
Finish ==
    /\ pc = "days"
    /\ day_i > Len(by_date)
    /\ pc' = "done"
    /\ UNCHANGED <<input, heap, norm_i, normalized, dedup_vars, run, prev_output,
                   registry_vars>>

\* the records returned
Output == [n \in 1..Len(deduplicated) |-> heap[deduplicated[n]]]

\* the run is repeated on an equal input
MaxRuns == 2

Rerun ==
    /\ pc = "done"
    /\ run < MaxRuns
    /\ run' = run + 1
    /\ prev_output' = Output
    /\ heap' = [n \in 1..Len(input) |-> input[n]]
    /\ pc' = "normalize"
    /\ norm_i' = 1
    /\ normalized' = <<>>
    /\ by_date' = <<>>
    /\ day_i' = 1
    /\ deduplicated' = <<>>
    /\ idx_i' = 1
    /\ idx_j' = 1
    /\ merged_indices' = {}
    /\ duplicates' = <<>>
    /\ day_result' = <<>>
    /\ absorbed' = [n \in 1..Len(input) |-> 0]
    /\ UNCHANGED <<input, registry_vars>>

Next ==
    \/ NormalizeOk
    \/ NormalizeDrop
    \/ NormalizeRaises
    \/ Group
    \/ DaySingle
    \/ DayStart
    \/ ScanSkip
    \/ ScanCompare
    \/ ScanRaises
    \/ Merge
    \/ Finish

Spec == Init /\ [][Next]_vars

NextTwice ==
    \/ Next
    \/ Rerun

SpecTwice == InitPool /\ [][NextTwice]_vars


(***************************************************************************)
(* utils/venue_registry.py: the module-level caches, filled on first use   *)
(* by _load_venues, and threads that call get_canonical_id or              *)
(* get_venue_info with no lock.  One step is one access to a module-level  *)
(* name or dict; the interpreter runs each such access atomically.         *)
(***************************************************************************)
MaxThreads == 2

Threads == 1..MaxThreads

\* venues.json: every id and variant belongs to one venue; an entry without
\* an id is skipped by the loader
Venue(id, id_variants) == [id |-> id, id_variants |-> id_variants]

RegistryFiles == {
    <<Venue(<<"r","o","y","a","l","e">>, <<<<"r","o","y","a","l","e","_","b","o","s","t","o","n">>, <<"R","o","y","a","l","e"," ","B","o","s","t","o","n">>>>),
      Venue(<<>>, <<<<"n","o","w","h","e","r","e">>>>),
      Venue(<<"m","i","d","d","l","e","e","a","s","t">>, <<<<"m","i","d","d","l","e","_","e","a","s","t","_","c","l","u","b">>>>)>>,
    <<Venue(<<"s","i","n","c","l","a","i","r">>, <<>>),
      Venue(<<"r","o","y","a","l","e">>, <<<<"r","o","y","a","l","e","_","b","o","s","t","o","n">>>>)>> }

\* the arguments of the lookups
LookupKeys == {
    <<"r","o","y","a","l","e">>, <<"r","o","y","a","l","e","_","b","o","s","t","o","n">>, <<"R","o","y","a","l","e"," ","B","o","s","t","o","n">>, <<" ","R","O","Y","A","L","E"," ">>,
    <<"m","i","d","d","l","e","e","a","s","t">>, <<"m","i","d","d","l","e","_","e","a","s","t","_","c","l","u","b">>, <<"m","i","d","d","l","e"," ","e","a","s","t"," ","c","l","u","b">>, <<"m","i","d","d","l","e","_","e","a","s","t">>,
    <<"s","i","n","c","l","a","i","r">>, <<"n","o","w","h","e","r","e">>, <<>> }

\* d[key] = value on a dict given as a set of <<key, value>> pairs
DictSet(dict, key, value) == {e \in dict : e[1] # key} \cup {<<key, value>>}

\* key in d
DictHas(dict, key) == \E e \in dict : e[1] = key

\* str.replace(old, new) for one character old and a string new
RECURSIVE Replace(_, _, _)
Replace(s, old, new) ==
    IF s = <<>> THEN <<>>
    ELSE (IF Head(s) = old THEN new ELSE <<Head(s)>>) \o Replace(Tail(s), old, new)

\* the value None, and a value that was found
None == [found |-> FALSE, id |-> <<>>]
Found(id) == [found |-> TRUE, id |-> id]

Idle == [pc |-> "idle", op |-> "", key |-> <<>>, loads_left |-> 0, venue_i |-> 1,
         variant_i |-> 1, canonical |-> None, result |-> None]

\* a variant of SkipsLoad that takes a dict with entries for a loaded one
SkipsLoad_when_populated == _loaded \/ _id_variants_map # {}

\* line 27: _load_venues returns at once
SkipsLoad == _loaded

\* a call of get_canonical_id (one call of _load_venues) or of
\* get_venue_info (which calls _load_venues and then get_canonical_id)
Call(t) ==
    /\ threads[t].pc = "idle"
    /\ \E op \in {"get_canonical_id", "get_venue_info"} :
          \E key \in LookupKeys :
             threads' = [threads EXCEPT ![t] =
                            [@ EXCEPT !.pc = "_load_venues", !.op = op, !.key = key,
                                      !.loads_left =
                                          IF op = "get_venue_info" THEN 2 ELSE 1]]
    /\ UNCHANGED <<pipeline_vars, venues_json, _venues_by_id, _id_variants_map, _loaded>>

\* where a thread goes on when _load_venues returns
AfterLoad(th) ==
    IF th.loads_left > 1
    THEN [th EXCEPT !.pc = "_load_venues", !.loads_left = @ - 1]
    ELSE [th EXCEPT !.pc = "direct", !.loads_left = 0]

\* lines 27-28: the registry is loaded already
LoadSkipped(t) ==
    /\ threads[t].pc = "_load_venues"
    /\ SkipsLoad
    /\ threads' = [threads EXCEPT ![t] = AfterLoad(@)]
    /\ UNCHANGED <<pipeline_vars, venues_json, _venues_by_id, _id_variants_map, _loaded>>

\* lines 30-42: the thread reads venues.json
LoadStarts(t) ==
    /\ threads[t].pc = "_load_venues"
    /\ ~SkipsLoad
    /\ threads' = [threads EXCEPT ![t] = [@ EXCEPT !.pc = "for_venue", !.venue_i = 1]]
    /\ UNCHANGED <<pipeline_vars, venues_json, _venues_by_id, _id_variants_map, _loaded>>

\* the venue that the loop of line 44 of thread t is at
venue(t) == venues_json[threads[t].venue_i]

\* lines 46-47: an entry without an id
SkipVenue(t) ==
    /\ threads[t].pc = "for_venue"
    /\ threads[t].venue_i <= Len(venues_json)
    /\ venue(t).id = <<>>
    /\ threads' = [threads EXCEPT ![t] = [@ EXCEPT !.venue_i = @ + 1]]
    /\ UNCHANGED <<pipeline_vars, venues_json, _venues_by_id, _id_variants_map, _loaded>>

\* line 50
StoreById(t) ==
    /\ threads[t].pc = "for_venue"
    /\ threads[t].venue_i <= Len(venues_json)
    /\ venue(t).id # <<>>
    /\ _venues_by_id' = DictSet(_venues_by_id, venue(t).id, venue(t))
    /\ threads' = [threads EXCEPT ![t] = [@ EXCEPT !.pc = "store_canonical"]]
    /\ UNCHANGED <<pipeline_vars, venues_json, _id_variants_map, _loaded>>

\* line 53
StoreCanonical(t) ==
    /\ threads[t].pc = "store_canonical"
    /\ _id_variants_map' = DictSet(_id_variants_map, venue(t).id, venue(t).id)
    /\ threads' = [threads EXCEPT ![t] = [@ EXCEPT !.pc = "for_variant", !.variant_i = 1]]
    /\ UNCHANGED <<pipeline_vars, venues_json, _venues_by_id, _loaded>>

\* lines 56-58
StoreVariant(t) ==
    /\ threads[t].pc = "for_variant"
    /\ threads[t].variant_i <= Len(venue(t).id_variants)
    /\ _id_variants_map' =
          DictSet(_id_variants_map,
                  Lower(venue(t).id_variants[threads[t].variant_i]), venue(t).id)
    /\ threads' = [threads EXCEPT ![t] = [@ EXCEPT !.variant_i = @ + 1]]
    /\ UNCHANGED <<pipeline_vars, venues_json, _venues_by_id, _loaded>>

\* the loop of line 56 is over
NextVenue(t) ==
    /\ threads[t].pc = "for_variant"
    /\ threads[t].variant_i > Len(venue(t).id_variants)
    /\ threads' = [threads EXCEPT ![t] = [@ EXCEPT !.pc = "for_venue", !.venue_i = @ + 1]]
    /\ UNCHANGED <<pipeline_vars, venues_json, _venues_by_id, _id_variants_map, _loaded>>

\* lines 60-61: the loop of line 44 is over
SetLoaded(t) ==
    /\ threads[t].pc = "for_venue"
    /\ threads[t].venue_i > Len(venues_json)
    /\ _loaded' = TRUE
    /\ threads' = [threads EXCEPT ![t] = AfterLoad(@)]
    /\ UNCHANGED <<pipeline_vars, venues_json, _venues_by_id, _id_variants_map>>

\* get_canonical_id returns value: to its caller get_venue_info, or as the
\* result of the call
Return(th, value) ==
    IF th.op = "get_venue_info"
    THEN [th EXCEPT !.pc = "info", !.canonical = value]
    ELSE [th EXCEPT !.pc = "done", !.result = value]

\* line 84
venue_id_lower(t) == Strip(Lower(threads[t].key))

\* one lookup of get_canonical_id: the key tried at this stage is in the dict
\* and its value is returned, or the next stage is tried
TryKey(t, key, next) ==
    IF DictHas(_id_variants_map, key)
    THEN threads' = [threads EXCEPT ![t] =
                        Return(@, Found(DictGet(_id_variants_map, key, <<>>)))]
    ELSE IF next = "None"
    THEN threads' = [threads EXCEPT ![t] = Return(@, None)]
    ELSE threads' = [threads EXCEPT ![t] = [@ EXCEPT !.pc = next]]

\* lines 80-88
LookupDirect(t) ==
    /\ threads[t].pc = "direct"
    /\ IF threads[t].key = <<>>
       THEN threads' = [threads EXCEPT ![t] = Return(@, None)]
       ELSE TryKey(t, venue_id_lower(t), "underscore")
    /\ UNCHANGED <<pipeline_vars, venues_json, _venues_by_id, _id_variants_map, _loaded>>

\* lines 91-93
LookupUnderscore(t) ==
    /\ threads[t].pc = "underscore"
    /\ TryKey(t, Replace(venue_id_lower(t), " ", <<"_">>), "nounderscore")
    /\ UNCHANGED <<pipeline_vars, venues_json, _venues_by_id, _id_variants_map, _loaded>>

\* lines 96-100
LookupNoUnderscore(t) ==
    /\ threads[t].pc = "nounderscore"
    /\ TryKey(t, Replace(venue_id_lower(t), "_", <<>>), "None")
    /\ UNCHANGED <<pipeline_vars, venues_json, _venues_by_id, _id_variants_map, _loaded>>

\* lines 115-119 of get_venue_info; the venue returned is named by its id
VenueInfo(t) ==
    /\ threads[t].pc = "info"
    /\ threads' = [threads EXCEPT ![t] =
          [@ EXCEPT !.pc = "done",
                    !.result =
                        IF /\ threads[t].canonical.found
                           /\ DictHas(_venues_by_id, threads[t].canonical.id)
                        THEN Found(DictGet(_venues_by_id, threads[t].canonical.id,
                                           Venue(<<>>, <<>>)).id)
                        ELSE None]]
    /\ UNCHANGED <<pipeline_vars, venues_json, _venues_by_id, _id_variants_map, _loaded>>

\* a process in which the registry is used for the first time by the threads
InitRegistry ==
    /\ input = <<>>
    /\ Start(input)
    /\ run = 1
    /\ prev_output = <<>>
    /\ venues_json \in RegistryFiles
    /\ _venues_by_id = {}
    /\ _id_variants_map = {}
    /\ _loaded = FALSE
    /\ threads = [t \in Threads |-> Idle]

NextRegistry ==
    \E t \in Threads :
        \/ Call(t)
        \/ LoadSkipped(t)
        \/ LoadStarts(t)
        \/ SkipVenue(t)
        \/ StoreById(t)
        \/ StoreCanonical(t)
        \/ StoreVariant(t)
        \/ NextVenue(t)
        \/ SetLoaded(t)
        \/ LookupDirect(t)
        \/ LookupUnderscore(t)
        \/ LookupNoUnderscore(t)
        \/ VenueInfo(t)

SpecRegistry == InitRegistry /\ [][NextRegistry]_vars

(***************************************************************************)
(* Properties.                                                             *)
(*                                                                         *)
(* Normalized(n) is object n as normalize_concerts leaves it; the merge    *)
(* changes the object it returns in place, so the properties that speak of *)
(* the records compared read them from Normalized, not from heap.          *)
(***************************************************************************)
Normalized(n) ==
    IF input[n].venue_id = NotAStr
    THEN DateAndBands(input[n])
    ELSE VenueTimeAgeFlags(DateAndBands(input[n]))

\* the object that n was merged into: the member of its cluster that is output
Cluster(n) == IF absorbed[n] = 0 THEN n ELSE absorbed[n]

Survivors == Range(normalized)

\* the pairwise duplicate test on the normalized records a and b
Linked(a, b) ==
    /\ a # b
    /\ ~AreDuplicatesRaises(Normalized(a), Normalized(b))
    /\ _are_duplicates(Normalized(a), Normalized(b))

SameDay(a, b) == heap[a].date.day = heap[b].date.day

\* C1: for every arrival order of a day's records, if A and B pass the
\* pairwise duplicate test and B and C pass it, then A, B and C end in the
\* same output record, even when A and C do not pass the test themselves.
C1_TransitiveGrouping ==
    pc = "done" =>
        \A a, b, c \in Survivors :
            (SameDay(a, b) /\ SameDay(b, c) /\ Linked(a, b) /\ Linked(b, c))
                => (Cluster(a) = Cluster(b) /\ Cluster(b) = Cluster(c))

\* C2 as stated: two records whose date values (calendar date and start
\* time) differ are never merged into the same output record.
C2_DifferentDatesApart ==
    \A a, b \in Survivors :
        heap[a].date # heap[b].date => Cluster(a) # Cluster(b)

\* C2, amended: two records whose calendar days differ are never merged into
\* the same output record; records of one day whose start times differ can be.
C2_DifferentDaysApart ==
    \A a, b \in Survivors :
        heap[a].date.day # heap[b].date.day => Cluster(a) # Cluster(b)

\* two records of different days that pass the pairwise test are both output
C2_Witness ==
    /\ pc = "done"
    /\ \E a, b \in Survivors :
          /\ heap[a].date.day # heap[b].date.day
          /\ Linked(a, b)
          /\ a \in Range(deduplicated)
          /\ b \in Range(deduplicated)

\* C3: two runs of normalize, duplicate detection and merge on equal inputs
\* return the same records in the same order with every field equal,
\* including the order of the elements of bands, flags and genre_tags.
C3_Deterministic ==
    (pc = "done" /\ run = 2) => Output = prev_output

\* _merge_concerts is about to be called on members
MergePending == pc = "scan" /\ idx_j > Len(day_concerts)

\* C4: the merge of a cluster of one member returns that member with every
\* field unchanged, so merging the result of a merge again returns it as it is.
C4_MergeIdempotent ==
    MergePending =>
        /\ Len(members) = 1 => MergeOutcomes(members) = {members[1]}
        /\ \A merged \in MergeOutcomes(members) : MergeOutcomes(<<merged>>) = {merged}

\* a cluster of two members whose flags differ is about to be merged
C4_Witness ==
    /\ MergePending
    /\ Len(members) = 2
    /\ Cardinality(Range(members[1].flags) \cup Range(members[2].flags)) = 2

\* C5: for a raw venue id that is a non-empty str, the venue id of the
\* normalized record is not empty.
C5_VenueIdNonEmpty ==
    \A n \in Survivors :
        (input[n].venue_id # <<>> /\ input[n].venue_id # NotAStr)
            => heap[n].venue_id # <<>>

\* at least one act of the raw record is not empty after trimming
HasAct(c) == \E k \in 1..Len(c.bands) : Strip(c.bands[k]) # <<>>

\* object n is in no list of the deduplication and in no cluster
InNoOutput(n) ==
    /\ absorbed[n] = 0
    /\ n \notin Range(deduplicated) \cup Range(day_result) \cup Range(duplicates)
    /\ \A g \in 1..Len(by_date) : n \notin Range(by_date[g][2])

\* C6: a record survives normalize_concerts exactly if one of its acts is not
\* empty after trimming; a surviving record has at least one act and no empty
\* act, and a dropped record is part of no output record.
C6_SurvivesIffHasAct ==
    \A n \in 1..(norm_i - 1) :
        /\ (n \in Survivors) <=> HasAct(input[n])
        /\ n \in Survivors =>
              /\ heap[n].bands # <<>>
              /\ \A k \in 1..Len(heap[n].bands) : heap[n].bands[k] # <<>>
        /\ n \notin Survivors => InNoOutput(n)

\* a run is over in which one record was dropped and another was output
C6_Witness ==
    /\ pc = "done"
    /\ \E n \in Ids : n \notin Survivors /\ input[n].bands # <<>>
    /\ deduplicated # <<>>

\* the days of the run that have exactly two records, as pairs of ids
TwoRecordDays ==
    {<<by_date[g][2][1], by_date[g][2][2]>> :
        g \in {g \in 1..Len(by_date) : Len(by_date[g][2]) = 2}}

\* exactly one of a and b is output, and it stands for both
OneOutput(a, b) ==
    /\ Cluster(a) = Cluster(b)
    /\ Cardinality({k \in 1..Len(deduplicated) : deduplicated[k] \in {a, b}}) = 1

\* both a and b are output, each for itself
TwoOutputs(a, b) ==
    /\ Cluster(a) # Cluster(b)
    /\ Cardinality({k \in 1..Len(deduplicated) : deduplicated[k] \in {a, b}}) = 2

\* C7: a day of exactly two records whose venues are similar (ratio of the
\* normalized names >= 80, or venue ids equal ignoring case) and whose
\* headliners have a ratio >= 80 yields exactly one output record, whatever
\* the time, prices, age and supporting acts of the two.
C7_SimilarPairMerges ==
    pc = "done" =>
        \A p \in TwoRecordDays :
            (/\ VenueSimilar(Normalized(p[1]), Normalized(p[2]))
             /\ HeadlinerSimilar(Normalized(p[1]), Normalized(p[2])))
                => OneOutput(p[1], p[2])

\* two such records that differ in time, prices and age became one record
C7_Witness ==
    /\ pc = "done"
    /\ \E p \in TwoRecordDays :
          /\ VenueSimilar(Normalized(p[1]), Normalized(p[2]))
          /\ HeadlinerSimilar(Normalized(p[1]), Normalized(p[2]))
          /\ ~MajorityMatch(Normalized(p[1]), Normalized(p[2]))
          /\ Normalized(p[1]).time # Normalized(p[2]).time
          /\ Normalized(p[1]).price_advance # Normalized(p[2]).price_advance
          /\ OneOutput(p[1], p[2])

\* the raw sources of the records merged into n
ClusterSources(n) == {input[m].source : m \in {m \in Ids : Cluster(m) = n}}

\* C8: the source of an output record is "merged:" followed by the distinct
\* sources of the members of its cluster, sorted and joined by "+", if they
\* have more than one distinct source, and the members' one source otherwise.
C8_MergedSource ==
    pc = "done" =>
        \A k \in 1..Len(deduplicated) :
            heap[deduplicated[k]].source =
                IF Cardinality(ClusterSources(deduplicated[k])) > 1
                THEN <<"m","e","r","g","e","d",":">> \o JoinPlus(SortedSet(ClusterSources(deduplicated[k])))
                ELSE input[deduplicated[k]].source

\* a cluster of three members with two distinct sources was merged
C8_Witness ==
    /\ pc = "done"
    /\ \E k \in 1..Len(deduplicated) :
          /\ Cardinality({m \in Ids : Cluster(m) = deduplicated[k]}) = 3
          /\ Cardinality(ClusterSources(deduplicated[k])) = 2

\* long is short followed by more text
LongerVariant(short, long) ==
    Len(long) > Len(short) /\ SubSeq(long, 1, Len(short)) = short

\* a and b are at the same venue, the headliner of b is a longer variant of
\* the headliner of a with a ratio below 80, and time, prices and age of the
\* two are equal, at least one price being given
ShortAndLong(a, b) ==
    /\ a.venue_id = b.venue_id
    /\ a.venue_name = b.venue_name
    /\ LongerVariant(headliner(a), headliner(b))
    /\ ~HeadlinerSimilar(a, b)
    /\ a.time = b.time
    /\ a.price_advance = b.price_advance
    /\ a.price_door = b.price_door
    /\ a.price_advance # <<>> \/ a.price_door # <<>>
    /\ a.age_requirement = b.age_requirement

\* C9: two records of one day at the same venue whose headliners are a short
\* name and a longer variant of it (ratio below 80) and whose time, prices
\* and age are equal are merged into one record, and the first act of that
\* record is the longer headliner.  Stated for the pairs with a price given.
C9_LongerHeadlinerSurvives ==
    pc = "done" =>
        \A p \in TwoRecordDays :
            \A short \in {p[1], p[2]} :
                \A long \in {p[1], p[2]} \ {short} :
                    ShortAndLong(Normalized(short), Normalized(long))
                        => /\ OneOutput(short, long)
                           /\ heap[Cluster(long)].bands[1] = headliner(Normalized(long))

\* neither the names nor the ids of the venues of a and b match
VenuesDissimilar(a, b) ==
    /\ ~FuzzRatioGE(m_normalize_name(VenueKey(a)), m_normalize_name(VenueKey(b)), 80)
    /\ Lower(a.venue_id) # Lower(b.venue_id)

\* C10: two records of one day whose venues are not similar (ratio of the
\* normalized names below 80 and venue ids not equal ignoring case) are not
\* duplicates for the pairwise test, and a day of just those two records
\* yields two output records, even if headliner, time, prices and age match.
C10_DissimilarVenuesApart ==
    /\ (/\ pc = "scan"
        /\ idx_j <= Len(day_concerts)
        /\ ~AreDuplicatesRaises(concert_a, concert_b)
        /\ VenuesDissimilar(concert_a, concert_b))
           => ~_are_duplicates(concert_a, concert_b)
    /\ pc = "done" =>
          \A p \in TwoRecordDays :
              VenuesDissimilar(Normalized(p[1]), Normalized(p[2]))
                  => TwoOutputs(p[1], p[2])

\* two records at dissimilar venues with the same headliner, time, prices and
\* age were both output
C10_Witness ==
    /\ pc = "done"
    /\ \E p \in TwoRecordDays :
          /\ VenuesDissimilar(Normalized(p[1]), Normalized(p[2]))
          /\ headliner(Normalized(p[1])) = headliner(Normalized(p[2]))
          /\ Normalized(p[1]).time = Normalized(p[2]).time
          /\ Normalized(p[1]).price_advance = Normalized(p[2]).price_advance
          /\ Normalized(p[1]).price_door = Normalized(p[2]).price_door
          /\ Normalized(p[1]).age_requirement = Normalized(p[2]).age_requirement
          /\ TwoOutputs(p[1], p[2])

\* the ids of xs are pairwise different
NoRepeat(xs) == Cardinality(Range(xs)) = Len(xs)

\* the records that stand for themselves or were merged into output record d
ClusterOf(d) == {n \in Survivors : Cluster(n) = d}

\* C11: deduplication partitions its input: each record that it is given is
\* the base of, or is absorbed into, exactly one output record, every
\* cluster has a member, one record is output per cluster, so that the
\* output has no more records than the input and no record is lost or
\* counted twice.
C11_Partition ==
    /\ MergePending =>
          /\ NoRepeat(duplicates)
          /\ \A n \in Range(duplicates) :
                absorbed[n] = 0 /\ n \notin Range(deduplicated) \cup Range(day_result)
    /\ pc = "done" =>
          /\ NoRepeat(deduplicated)
          /\ Range(deduplicated) \subseteq Survivors
          /\ \A n \in Survivors : Cluster(n) \in Range(deduplicated)
          /\ \A d \in Range(deduplicated) : d \in ClusterOf(d)
          /\ Len(deduplicated) <= Len(normalized)
          /\ Len(deduplicated) = Cardinality({Cluster(n) : n \in Survivors})

\* a day of three records ended as a cluster of two and a cluster of one
C11_Witness ==
    /\ pc = "done"
    /\ Len(by_date) = 1
    /\ Len(normalized) = 3
    /\ Len(deduplicated) = 2
    /\ \E d \in Range(deduplicated) : Cardinality(ClusterOf(d)) = 2

\* C12: for every batch, also one with a record on which a field
\* normalization raises, normalize_concerts followed by deduplicate_concerts
\* does not raise, and every record that normalize_concerts kept is output or
\* merged into an output record.
C12_MalformedDoesNotAbort ==
    /\ pc # "raised"
    /\ pc = "done" => \A n \in Survivors : Cluster(n) \in Range(deduplicated)

\* the normalization of record n raised
NormalizeRaised(n) ==
    /\ n < norm_i
    /\ n \in Survivors
    /\ input[n].venue_id = NotAStr

\* C13: when the normalization of a record raises part-way,
\* normalize_concerts does not raise and keeps the record with every field
\* as it was before the normalization was attempted.
C13_RaisedRecordUnchanged ==
    pc = "normalize" =>
        \A n \in Ids : NormalizeRaised(n) => heap[n] = input[n]

(***************************************************************************)
(* _deduplicate_day as a function of the list it is given alone: the       *)
(* clusters it forms, as lists of positions of that list, in the order of  *)
(* its result, or the fact that it raises.                                 *)
(***************************************************************************)
\* the positions after i that the inner loop of line 71 compares with i
Compared(cs, i, merged) == {j \in (i + 1)..Len(cs) : j \notin merged}

\* the positions that lines 75-77 add to duplicates
FoundDuplicates(cs, i, compared) ==
    {j \in compared : _are_duplicates(cs[i], cs[j])}

\* the positions of a set in increasing order
RECURSIVE Ascending(_)
Ascending(S) ==
    IF S = {} THEN <<>>
    ELSE <<CHOOSE n \in S : \A o \in S : n <= o>>
         \o Ascending(S \ {CHOOSE n \in S : \A o \in S : n <= o})

RECURSIVE DayScan(_, _, _, _)
DayScan(cs, i, merged, clusters) ==
    IF i > Len(cs) THEN [raises |-> FALSE, clusters |-> clusters]
    ELSE IF i \in merged THEN DayScan(cs, i + 1, merged, clusters)
    ELSE IF \E j \in Compared(cs, i, merged) : AreDuplicatesRaises(cs[i], cs[j])
    THEN [raises |-> TRUE, clusters |-> <<>>]
    ELSE DayScan(cs, i + 1,
                 merged \cup FoundDuplicates(cs, i, Compared(cs, i, merged)),
                 Append(clusters,
                        <<i>> \o Ascending(FoundDuplicates(cs, i, Compared(cs, i, merged)))))

_deduplicate_day(cs) ==
    IF Len(cs) <= 1
    THEN [raises |-> FALSE, clusters |-> [k \in 1..Len(cs) |-> <<k>>]]
    ELSE DayScan(cs, 1, {}, <<>>)

\* the records of day g of by_date as normalize_concerts left them
DayRecords(g) ==
    SubSeq([k \in 1..Len(by_date[g][2]) |-> Normalized(by_date[g][2][k])],
           1, Len(by_date[g][2]))

\* the ids of deduplicated that are records of day g, in their order
DayOutput(g) ==
    SelectSeq(deduplicated, LAMBDA d : d \in Range(by_date[g][2]))

\* the k-th cluster that _deduplicate_day forms of day g alone, as records
AloneCluster(g, k) ==
    [m \in 1..Len(_deduplicate_day(DayRecords(g)).clusters[k]) |->
        DayRecords(g)[_deduplicate_day(DayRecords(g)).clusters[k][m]]]

\* the output of day g is what _deduplicate_day returns for day g alone
DayAsAlone(g) ==
    /\ ~_deduplicate_day(DayRecords(g)).raises
    /\ Len(DayOutput(g)) = Len(_deduplicate_day(DayRecords(g)).clusters)
    /\ \A k \in 1..Len(DayOutput(g)) :
          heap[DayOutput(g)[k]] \in MergeOutcomes(AloneCluster(g, k))

\* the pass over a day has changed only records of that day
OnlyOwnDayChanged ==
    \A g \in 1..Len(by_date) :
        \A n \in Range(by_date[g][2]) :
            heap[n] # Normalized(n) => (g < day_i \/ (g = day_i /\ pc = "scan"))

\* in a run that returns, each day's output is that of the day alone
ReturnedDaysAsAlone ==
    pc = "done" => \A g \in 1..Len(by_date) : DayAsAlone(g)

\* C14: the output records of a day depend on the records of that day only:
\* each day yields the records that _deduplicate_day returns for that day
\* alone, whatever the other days of the batch hold, and the pass over a day
\* changes no record of another day.
C14_DaysIndependent ==
    /\ OnlyOwnDayChanged
    /\ ReturnedDaysAsAlone
    /\ pc = "raised" =>
          \A g \in 1..Len(by_date) : _deduplicate_day(DayRecords(g)).raises

\* the venues of venues.json that the loader registers
Registered == {venues_json[k] : k \in {k \in 1..Len(venues_json) : venues_json[k].id # <<>>}}

\* the ids and variants of the registered venues, as venues.json has them
RegisteredKeys == UNION {{v.id} \cup Range(v.id_variants) : v \in Registered}

\* the id of the venue that has key as its id or as a variant
CanonicalOf(key) ==
    (CHOOSE v \in Registered : key = v.id \/ key \in Range(v.id_variants)).id

\* thread t is filling the dicts
Loading(t) == threads[t].pc \in {"for_venue", "store_canonical", "for_variant"}

\* C15: with no reload, under any interleaving of first-use lookups
\* (get_canonical_id, get_venue_info) by several threads, no lookup sees a
\* registry filled in part: the lookup of a registered id or variant returns
\* its canonical id (the venue of that id for get_venue_info), never None.
C15_LookupSeesFullRegistry ==
    \A t \in DOMAIN threads :
        (threads[t].pc = "done" /\ threads[t].key \in RegisteredKeys)
            => threads[t].result = Found(CanonicalOf(threads[t].key))

\* one thread has looked up a variant while another thread, which started
\* its own load before the flag was set, is still filling the dicts
C15_Witness ==
    \E t, u \in DOMAIN threads :
        /\ threads[t].pc = "done"
        /\ threads[t].key \in RegisteredKeys
        /\ threads[t].key # CanonicalOf(threads[t].key)
        /\ threads[t].result.found
        /\ Loading(u)
        /\ _loaded

\* _are_duplicates is about to be called on concert_a and concert_b and
\* does not raise
ComparePending ==
    /\ pc = "scan"
    /\ idx_j <= Len(day_concerts)
    /\ idx_j \notin merged_indices
    /\ ~AreDuplicatesRaises(concert_a, concert_b)

\* the pair compared has similar venues and headliners of a ratio below 80,
\* so that the vote decides
VotePending ==
    /\ ComparePending
    /\ VenueSimilar(concert_a, concert_b)
    /\ ~HeadlinerSimilar(concert_a, concert_b)

\* C16: for a pair with similar venues whose headliner ratio is below 80,
\* the pairwise test says duplicate exactly if at least 3 checks were
\* possible and the matches are a strict majority of the checks
\* (2 * matches > checks), for every combination of the two counts.
C16_StrictMajority ==
    VotePending =>
        (_are_duplicates(concert_a, concert_b)
            <=> /\ total_checks(concert_a, concert_b) >= 3
                /\ 2 * match_count(concert_a, concert_b)
                      > total_checks(concert_a, concert_b))

\* a vote of 4 checks with 2 matches: a tie, and no duplicate
C16_Witness ==
    /\ VotePending
    /\ total_checks(concert_a, concert_b) = 4
    /\ match_count(concert_a, concert_b) = 2
    /\ ~_are_duplicates(concert_a, concert_b)

\* both records give the attribute; just one of them gives it
BothGive(x, y) == x # <<>> /\ y # <<>>
OneGives(x, y) == (x = <<>>) # (y = <<>>)

\* the attributes that both records give: time, the two prices, age, and
\* supporting acts
GivenByBoth(a, b) ==
      Bit(BothGive(a.time, b.time))
    + Bit(BothGive(a.price_advance, b.price_advance))
    + Bit(BothGive(a.price_door, b.price_door))
    + Bit(BothGive(a.age_requirement, b.age_requirement))
    + Bit(Len(a.bands) > 1 /\ Len(b.bands) > 1)

\* the attributes that both records give and that agree
AgreedByBoth(a, b) ==
      Bit(BothGive(a.time, b.time) /\ _times_similar(a.time, b.time))
    + Bit(BothGive(a.price_advance, b.price_advance)
          /\ a.price_advance = b.price_advance)
    + Bit(BothGive(a.price_door, b.price_door) /\ a.price_door = b.price_door)
    + Bit(BothGive(a.age_requirement, b.age_requirement)
          /\ a.age_requirement = b.age_requirement)
    + Bit(Len(a.bands) > 1 /\ Len(b.bands) > 1 /\ SupportOverlap(a, b))

\* the prices that just one of the two records gives
PricesOfOne(a, b) ==
      Bit(OneGives(a.price_advance, b.price_advance))
    + Bit(OneGives(a.price_door, b.price_door))

\* C17 as stated: in the vote an attribute (time, advance price, door price,
\* age, supporting acts) is a check only if both records give it; an
\* attribute that one record alone gives adds no check and no match.
C17_ChecksNeedBoth ==
    VotePending =>
        /\ total_checks(concert_a, concert_b) = GivenByBoth(concert_a, concert_b)
        /\ match_count(concert_a, concert_b) = AgreedByBoth(concert_a, concert_b)

\* C17, amended: time, age and supporting acts are checks only if both
\* records give them; a price is a check as soon as one of the two records
\* gives it, and a price that one record alone gives adds a check and no
\* match.  A match is an attribute that both give and that agrees.
C17_PriceOfOneIsCheck ==
    VotePending =>
        /\ total_checks(concert_a, concert_b)
              = GivenByBoth(concert_a, concert_b) + PricesOfOne(concert_a, concert_b)
        /\ match_count(concert_a, concert_b) = AgreedByBoth(concert_a, concert_b)

\* a pair with equal time and age and an advance price on one side only:
\* the price is the third check, and 2 matches of 3 make a duplicate
C17_Witness ==
    /\ VotePending
    /\ PricesOfOne(concert_a, concert_b) = 1
    /\ GivenByBoth(concert_a, concert_b) = 2
    /\ total_checks(concert_a, concert_b) = 3
    /\ _are_duplicates(concert_a, concert_b)

\* the members of the cluster of output record d as _merge_concerts sorts
\* them: the base first, then the other members by rank
RankedMembers(d) ==
    SortedMembers([k \in 1..Cardinality(ClusterOf(d)) |->
                      Normalized(Ascending(ClusterOf(d))[k])])

\* the first of the values that is given, if there is one
RECURSIVE FirstGiven(_)
FirstGiven(values) ==
    IF values = <<>> THEN <<>>
    ELSE IF Head(values) # <<>> THEN Head(values)
    ELSE FirstGiven(Tail(values))

\* C18: in a merged record, price_advance and price_door are the base's
\* value if the base gives one (a price of 0 included), else the value of
\* the highest-ranked other member that gives one (0 included); a price is
\* missing only if no member gives it.
C18_PricesFilled ==
    pc = "done" =>
        \A d \in Range(deduplicated) :
            /\ heap[d].price_advance =
                  FirstGiven([r \in 1..Len(RankedMembers(d)) |->
                                 RankedMembers(d)[r].price_advance])
            /\ heap[d].price_door =
                  FirstGiven([r \in 1..Len(RankedMembers(d)) |->
                                 RankedMembers(d)[r].price_door])

\* the days of two records with one act each that were merged into one
\* record, as <<base, other>>: the ids of the record returned and of the
\* record merged into it
MergedActPairs ==
    {<<Cluster(p[1]), CHOOSE n \in {p[1], p[2]} : n # Cluster(p[1])>> :
        p \in {q \in TwoRecordDays :
                  /\ OneOutput(q[1], q[2])
                  /\ Len(Normalized(q[1]).bands) = 1
                  /\ Len(Normalized(q[2]).bands) = 1}}

\* the act of the base and the act of the other member, before the merge
BaseAct(p) == Normalized(p[1]).bands[1]
OtherAct(p) == Normalized(p[2]).bands[1]

\* fuzz.ratio of the two acts in lower case, against 90
RatioAtLeast90(p) == FuzzRatioGE(Lower(OtherAct(p)), Lower(BaseAct(p)), 90)
RatioAbove90(p) == FuzzRatioGT(Lower(OtherAct(p)), Lower(BaseAct(p)), 90)

\* C19 as stated: an act of the other member whose ratio to an act of the
\* merged list is >= 90, exactly 90 included, is taken for the same act and
\* is not appended as an entry of its own.  Stated for merged pairs of
\* records with one act each.
C19_SameActFrom90 ==
    pc = "done" =>
        \A p \in MergedActPairs :
            RatioAtLeast90(p) => Len(heap[p[1]].bands) = 1

\* C19, amended: the act is taken for the same act and not appended if the
\* ratio is above 90; at a ratio of 90 or less, exactly 90 included, it is
\* appended as an entry of its own.
C19_SameActAbove90 ==
    pc = "done" =>
        \A p \in MergedActPairs :
            /\ RatioAbove90(p) => Len(heap[p[1]].bands) = 1
            /\ ~RatioAbove90(p) => heap[p[1]].bands = <<BaseAct(p), OtherAct(p)>>

\* two spellings with a ratio of exactly 90 are both in the merged record
C19_Witness ==
    /\ pc = "done"
    /\ \E p \in MergedActPairs :
          /\ RatioAtLeast90(p)
          /\ ~RatioAbove90(p)
          /\ heap[p[1]].bands = <<BaseAct(p), OtherAct(p)>>

\* the longer of two names, the base's if they are as long
LongerOf(x, y) == IF Len(y) > Len(x) THEN y ELSE x

\* C20 as stated: when an act of the other member matches an act of the
\* merged list, the entry kept at that position is the longer of the two
\* names.  Stated for merged pairs of records with one act each.
C20_LongerKept ==
    pc = "done" =>
        \A p \in MergedActPairs :
            RatioAbove90(p) => heap[p[1]].bands = <<LongerOf(BaseAct(p), OtherAct(p))>>

\* C20, amended: the entry kept is the other member's name only if it is
\* more than 5 characters longer than the entry of the list, and the entry
\* of the list otherwise, also when the other name is 1 to 5 longer.
C20_LongerByMoreThan5Kept ==
    pc = "done" =>
        \A p \in MergedActPairs :
            RatioAbove90(p) =>
                heap[p[1]].bands =
                    <<IF Len(OtherAct(p)) > Len(BaseAct(p)) + 5
                      THEN OtherAct(p) ELSE BaseAct(p)>>

\* a name of the list was replaced by a matching name 6 characters longer
C20_Witness ==
    /\ pc = "done"
    /\ \E p \in MergedActPairs :
          /\ RatioAbove90(p)
          /\ Len(OtherAct(p)) > Len(BaseAct(p)) + 5
          /\ heap[p[1]].bands = <<OtherAct(p)>>

(***************************************************************************)
(* Properties of the merge: the base, the order of the members, and the    *)
(* fields taken from the other members.                                    *)
(***************************************************************************)
\* the richness and the source rank of record n as it was compared
Richness(n) == _info_richness_score(Normalized(n))
SourceRank(n) == DictGet(source_priority, Normalized(n).source, 99)

\* C21: the base of a merged cluster, the record that survives, is a member
\* of the highest richness score among the members; among the members as
\* rich as it, it is one whose source ranks best in the priority table.
C21_BaseIsRichestThenBestSource ==
    \A n \in DOMAIN absorbed :
        absorbed[n] # 0 =>
            /\ Richness(absorbed[n]) >= Richness(n)
            /\ Richness(absorbed[n]) = Richness(n)
                  => SourceRank(absorbed[n]) <= SourceRank(n)

\* a record was merged into a record that came after it in the list, is as
\* rich as it and is of a source of a better rank
C21_Witness ==
    \E n \in DOMAIN absorbed :
        /\ absorbed[n] > n
        /\ Richness(absorbed[n]) = Richness(n)
        /\ SourceRank(absorbed[n]) < SourceRank(n)

\* the orders of a list of n members, and a list in one of these orders
Orders(n) == {q \in [1..n -> 1..n] : Range(q) = 1..n}
Reordered(cs, q) == SubSeq([k \in 1..Len(cs) |-> cs[q[k]]], 1, Len(cs))

\* the acts, prices, time and age of the record that _merge_concerts makes
\* of the members cs
FieldsOf(merged) ==
    <<merged.bands, merged.price_advance, merged.price_door, merged.time,
      merged.age_requirement>>

MergedFields(cs) ==
    CHOOSE fields \in {FieldsOf(merged) : merged \in {MergeSorted(SortedMembers(cs))}} :
        TRUE

\* C22: the merge of a cluster gives the same record for every order of the
\* members: the base is the same record (a member with the same fields), and
\* the acts in their order, the prices, the time and the age requirement are
\* the same.
C22_MergeOrderIndependent ==
    MergePending =>
        \A q \in Orders(Len(members)) :
            /\ SortedMembers(Reordered(members, q))[1] = SortedMembers(members)[1]
            /\ MergedFields(Reordered(members, q)) = MergedFields(members)

\* the first of the values that is not the default, the default if none is
RECURSIVE FirstNot(_, _)
FirstNot(values, default) ==
    IF values = <<>> THEN default
    ELSE IF Head(values) # default THEN Head(values)
    ELSE FirstNot(Tail(values), default)

\* the times and the age requirements of the members as ranked, the base
\* first and then the others by rank
TimesOf(ranked) == [r \in 1..Len(ranked) |-> ranked[r].time]
AgesOf(ranked) == [r \in 1..Len(ranked) |-> ranked[r].age_requirement]

\* C23: the time of a merged record is the base's if that is not the default
\* "8pm", else the time of the highest-ranked other member whose time is not
\* the default, and the default only if every member has the default; the
\* same for the age requirement with the default "a/a".
C23_PreferNonDefault ==
    pc = "done" =>
        \A d \in Range(deduplicated) :
            \A ranked \in {RankedMembers(d)} :
                /\ heap[d].time = FirstNot(TimesOf(ranked), <<"8","p","m">>)
                /\ heap[d].age_requirement = FirstNot(AgesOf(ranked), <<"a","/","a">>)

\* a base with the default time got the time of a member that came later in
\* the list than another member with another time
C23_Witness ==
    /\ pc = "done"
    /\ \E d \in Range(deduplicated) :
          /\ Normalized(d).time = <<"8","p","m">>
          /\ heap[d].time # <<"8","p","m">>
          /\ \E n, m \in ClusterOf(d) \ {d} :
                /\ n < m
                /\ Normalized(n).time \notin {<<"8","p","m">>, heap[d].time}
                /\ Normalized(m).time = heap[d].time

\* the flags and the genre tags that the members of the cluster of d had
MemberFlags(d) == UNION {Range(Normalized(n).flags) : n \in ClusterOf(d)}
MemberGenres(d) == UNION {Range(Normalized(n).genre_tags) : n \in ClusterOf(d)}

\* the sets of flags and of genre tags of the record made of the members cs
SetsOf(merged) == <<Range(merged.flags), Range(merged.genre_tags)>>

MergedSets(cs) ==
    CHOOSE sets \in {SetsOf(merged) : merged \in {MergeSorted(SortedMembers(cs))}} :
        TRUE

LeadingThe(name) ==
    /\ StartsWith(Lower(name), <<"t","h","e"," ">>)
    /\ Strip(From(name, 5)) # <<>>

\* C25: the normalization of an act name keeps a leading "The ": for every
\* act name that begins with "The " in any letter case and goes on after
\* it, the normalized name begins with "The ".
C25_LeadingThePreserved ==
    pc = "normalize" =>
        \A n \in 1..(norm_i - 1) :
            \A k \in DOMAIN input[n].bands :
                (/\ Len(heap[n].bands) = Len(input[n].bands)
                 /\ LeadingThe(input[n].bands[k]))
                    => StartsWith(heap[n].bands[k], <<"T","h","e"," ">>)

\* the time is an hour, or an hour and minutes, with no am or pm
NoMarker(time) ==
    /\ DigitPrefixLen(time) > 0
    /\ ~Contains(Lower(time), <<"a","m">>)
    /\ ~Contains(Lower(time), <<"p","m">>)

\* the same time with its hour shifted down by 12 if above 12 and with pm
WrittenWithPm(time) ==
    IntToStr(IF LeadingInt(time) > 12 THEN LeadingInt(time) - 12 ELSE LeadingInt(time))
    \o From(time, DigitPrefixLen(time) + 1) \o <<"p","m">>

\* C26: a time with no am or pm is normalized to what the same time written
\* with pm is normalized to, an hour above 12 first shifted down by 12
\* ("7:30" to "7:30pm", "20:30" to "8:30pm", "8:00" to "8pm"); the minutes
\* are kept unless they are ":00".
C26_NoMarkerMeansPm ==
    pc = "normalize" =>
        \A n \in 1..(norm_i - 1) :
            (input[n].venue_id # NotAStr /\ heap[n].bands # <<>> /\ NoMarker(input[n].time))
                => heap[n].time = _normalize_time(WrittenWithPm(input[n].time))

\* the two raw venue ids differ at most in letter case and in having spaces
\* where the other has underscores
SameSlug(a, b) ==
    Replace(Lower(a), " ", <<"_">>) = Replace(Lower(b), " ", <<"_">>)

\* the raw venue id is a key or a value of id_map: a variant or a canonical id
IsRegistered(venue_id) ==
    \E e \in id_map : e[1] = venue_id \/ e[2] = venue_id

\* C27: two raw venue ids that differ only in letter case and in having
\* spaces where the other has underscores are normalized to the same venue
\* id whenever one of them is a registered id or variant.
C27_SpacesAndUnderscoresResolveAlike ==
    pc = "normalize" =>
        \A n, m \in 1..(norm_i - 1) :
            (/\ n \in Survivors /\ m \in Survivors
             /\ input[n].venue_id # NotAStr /\ input[m].venue_id # NotAStr
             /\ input[n].venue_name = input[m].venue_name
             /\ SameSlug(input[n].venue_id, input[m].venue_id)
             /\ IsRegistered(input[n].venue_id) \/ IsRegistered(input[m].venue_id))
                => heap[n].venue_id = heap[m].venue_id

(***************************************************************************)
(* Properties of the pass over a day as a whole.                           *)
(***************************************************************************)
\* the records output for day g, as they are returned
DayOutputRecords(g) == [k \in 1..Len(DayOutput(g)) |-> heap[DayOutput(g)[k]]]

\* C28: after deduplication no two different output records of one day pass
\* the pairwise duplicate test, so that deduplicate_concerts run on its own
\* output merges nothing and returns as many records.
C28_OutputHasNoDuplicates ==
    pc = "done" =>
        /\ \A d, e \in Range(deduplicated) :
              (d # e /\ SameDay(d, e) /\ ~AreDuplicatesRaises(heap[d], heap[e]))
                  => ~_are_duplicates(heap[d], heap[e])
        /\ \A g \in 1..Len(by_date) :
              ~_deduplicate_day(DayOutputRecords(g)).raises
                  => Len(_deduplicate_day(DayOutputRecords(g)).clusters)
                        = Len(DayOutput(g))

\* the records of the day that _deduplicate_day is about to be given
day_records ==
    SubSeq([k \in 1..Len(day_concerts) |-> heap[day_concerts[k]]], 1, Len(day_concerts))

\* the clusters that _deduplicate_day forms of the records cs given in the
\* order q, each cluster as the set of the positions that its members have
\* in cs
Grouping(cs, q) ==
    {{q[cluster[m]] : m \in 1..Len(cluster)} :
        cluster \in Range(_deduplicate_day(Reordered(cs, q)).clusters)}

\* C29: the clusters of a day are the same for every arrival order of the
\* day's records: the same records are grouped together and as many records
\* are output.  Stated for the orders in which the pass does not raise.
C29_ArrivalOrderIndependent ==
    (pc = "days" /\ day_i <= Len(by_date)) =>
        \A q, r \in Orders(Len(day_records)) :
            (/\ ~_deduplicate_day(Reordered(day_records, q)).raises
             /\ ~_deduplicate_day(Reordered(day_records, r)).raises)
                => Grouping(day_records, q) = Grouping(day_records, r)

\* _are_duplicates is about to be called on concert_a and concert_b
CallPending ==
    /\ pc = "scan"
    /\ idx_j <= Len(day_concerts)
    /\ ~AlreadyMerged

\* the members of cs at the positions of a cluster, in the cluster's order
Picked(cs, cluster) ==
    SubSeq([m \in 1..Len(cluster) |-> cs[cluster[m]]], 1, Len(cluster))

\* the output of day g is that of a pass in two phases: found are the
\* clusters of the records cs of the day as normalize_concerts left them,
\* and each output record is, in the order of the clusters, a merge of the
\* members of its cluster
SameAsTwoPhases(g, cs, found) ==
    /\ ~found.raises
    /\ Len(DayOutput(g)) = Len(found.clusters)
    /\ \A k \in 1..Len(found.clusters) :
          /\ k <= Len(DayOutput(g))
          /\ heap[DayOutput(g)[k]] \in MergeOutcomes(Picked(cs, found.clusters[k]))
          /\ ClusterOf(DayOutput(g)[k])
                = {by_date[g][2][n] : n \in Range(found.clusters[k])}

\* C30: _deduplicate_day merges each cluster in place before it looks at the
\* later records, and yet every call of the pairwise test is on two records
\* that no merge has changed, so that the run returns the clusters and the
\* records of a pass that first finds all the clusters on the records as
\* normalized and then merges each of them.
C30_ComparesUnmergedRecords ==
    /\ CallPending =>
          /\ concert_a = Normalized(day_concerts[idx_i])
          /\ concert_b = Normalized(day_concerts[idx_j])
    /\ pc = "done" =>
          \A g \in 1..Len(by_date) :
              \A cs \in {DayRecords(g)} :
                  \A found \in {_deduplicate_day(cs)} :
                      SameAsTwoPhases(g, cs, found)

\* the pairwise test is called on two records of a day in which a merge has
\* changed another record already
C30_Witness ==
    /\ CallPending
    /\ \E n \in Range(day_concerts) : heap[n] # Normalized(n)
=============================================================================
